---- MODULE Spec2Model ----
(***************************************************************************)
(* Sandboxed search and retrieval engine of legalgenius                    *)
(* (src/mcp_server/tools.py, served by src/mcp_server/server.py and called *)
(* by src/client/agent_cli.py).                                            *)
(*                                                                         *)
(* Text is modelled exactly: a str is a sequence of Unicode code points    *)
(* (integers), a bytes object a sequence of byte values 0..255.  A path is *)
(* a sequence of segments, each segment a str.  An absolute path is the    *)
(* sequence of its segments below "/".                                     *)
(***************************************************************************)
EXTENDS Integers, Sequences, FiniteSets, TLC

VARIABLES
    root,               \* Sandbox.root: resolved absolute path of the corpus
    disk,               \* the filesystem: absolute path -> file / symlink entry
    line_offset_cache,  \* Sandbox._line_offset_cache: path -> list of offsets
    rg_path,            \* shutil.which("rg"): the matcher on PATH, if any
    request,            \* the call being served: [op, ...arguments]
    response            \* what the call returned or raised

vars == <<root, disk, line_offset_cache, rg_path, request, response>>

-----------------------------------------------------------------------------
(* Bounds of the model *)

\* longest relative path (in segments) handed to the sandbox
MaxRelLen == 4

\* longest file content (in bytes) of the range-read corpus
MaxFileLen == 3

\* most operators and parenthesis pairs of a generated boolean query
MaxQueryOps == 3

\* largest max_results argument given to file_search
MaxFileCap == 2

-----------------------------------------------------------------------------
(* str helpers *)

\* s.startswith(prefix)
StartsWith(s, prefix) ==
    /\ Len(prefix) <= Len(s)
    /\ SubSeq(s, 1, Len(prefix)) = prefix

\* one character of str.lower() (ASCII and Latin-1 letters)
LowerChar(c) ==
    IF c \in 65..90 THEN c + 32
    ELSE IF c \in 192..222 /\ c # 215 THEN c + 32
    ELSE c

\* str.lower()
Lower(s) == [i \in 1..Len(s) |-> LowerChar(s[i])]

\* one character of str.upper() for the ASCII letters, enough to be compared
\* against "AND" / "OR" / ")"
UpperChar(c) == IF c \in 97..122 THEN c - 32 ELSE c

Upper(s) == [i \in 1..Len(s) |-> UpperChar(s[i])]

\* needle in hay (substring test)
Contains(hay, needle) ==
    \E i \in 0..(Len(hay) - Len(needle)) :
        SubSeq(hay, i + 1, i + Len(needle)) = needle

\* F applied to the value of v, which is computed once
Let(v, F(_)) == CHOOSE r \in { F(x) : x \in {v} } : TRUE

\* all sequences over S of length at most n
SeqsUpTo(S, n) == UNION { [1..k -> S] : k \in 0..n }

-----------------------------------------------------------------------------
(* Optional arguments: {} is None, {v} is the value v *)

None == {}
Some(v) == {v}
ValueOf(opt) == CHOOSE v \in opt : TRUE

Min(a, b) == IF a <= b THEN a ELSE b
Max(a, b) == IF a >= b THEN a ELSE b

-----------------------------------------------------------------------------
(* UTF-8 *)

\* U+FFFD, what errors="replace" puts in place of an undecodable byte run
ReplacementChar == <<65533>>

IsContinuation(b, i) == i <= Len(b) /\ b[i] \in 128..191

\* one step of bytes.decode("utf-8", errors="replace") at index i:
\* [cp, n] - the code point and the number of bytes it consumed.  An
\* ill-formed sequence is replaced as a whole (its maximal valid prefix).
DecodeAt(b, i) ==
    LET b0 == b[i]
        bad(n) == [cp |-> ReplacementChar[1], n |-> n, ok |-> FALSE]
    IN
    IF b0 < 128 THEN [cp |-> b0, n |-> 1, ok |-> TRUE]
    ELSE IF b0 \in 194..223 THEN
        IF IsContinuation(b, i + 1)
        THEN [cp |-> (b0 - 192) * 64 + (b[i + 1] - 128), n |-> 2, ok |-> TRUE]
        ELSE bad(1)
    ELSE IF b0 \in 224..239 THEN
        LET lo == IF b0 = 224 THEN 160 ELSE 128
            hi == IF b0 = 237 THEN 159 ELSE 191
        IN IF ~(i + 1 <= Len(b) /\ b[i + 1] \in lo..hi) THEN bad(1)
           ELSE IF ~IsContinuation(b, i + 2) THEN bad(2)
           ELSE [cp |-> (b0 - 224) * 4096 + (b[i + 1] - 128) * 64 + (b[i + 2] - 128),
                 n |-> 3, ok |-> TRUE]
    ELSE IF b0 \in 240..244 THEN
        LET lo == IF b0 = 240 THEN 144 ELSE 128
            hi == IF b0 = 244 THEN 143 ELSE 191
        IN IF ~(i + 1 <= Len(b) /\ b[i + 1] \in lo..hi) THEN bad(1)
           ELSE IF ~IsContinuation(b, i + 2) THEN bad(2)
           ELSE IF ~IsContinuation(b, i + 3) THEN bad(3)
           ELSE [cp |-> (b0 - 240) * 262144 + (b[i + 1] - 128) * 4096
                        + (b[i + 2] - 128) * 64 + (b[i + 3] - 128),
                 n |-> 4, ok |-> TRUE]
    ELSE bad(1)

\* bytes.decode("utf-8", errors="replace")
RECURSIVE DecodeFrom(_, _)
DecodeFrom(b, i) ==
    IF i > Len(b) THEN <<>>
    ELSE LET d == DecodeAt(b, i) IN <<d.cp>> \o DecodeFrom(b, i + d.n)

Decode(b) == DecodeFrom(b, 1)

\* bytes.decode("utf-8", errors="ignore"): ill-formed sequences are dropped
RECURSIVE DecodeIgnoreFrom(_, _)
DecodeIgnoreFrom(b, i) ==
    IF i > Len(b) THEN <<>>
    ELSE LET d == DecodeAt(b, i) IN
         (IF d.ok THEN <<d.cp>> ELSE <<>>) \o DecodeIgnoreFrom(b, i + d.n)

DecodeIgnore(b) == DecodeIgnoreFrom(b, 1)

\* the bytes are well-formed UTF-8
RECURSIVE IsValidUtf8From(_, _)
IsValidUtf8From(b, i) ==
    IF i > Len(b) THEN TRUE
    ELSE LET d == DecodeAt(b, i) IN d.ok /\ IsValidUtf8From(b, i + d.n)

IsValidUtf8(b) == IsValidUtf8From(b, 1)

\* the UTF-8 encoding of one code point
EncodeChar(cp) ==
    IF cp < 128 THEN <<cp>>
    ELSE IF cp < 2048 THEN <<192 + (cp \div 64), 128 + (cp % 64)>>
    ELSE IF cp < 65536
         THEN <<224 + (cp \div 4096), 128 + ((cp \div 64) % 64), 128 + (cp % 64)>>
    ELSE <<240 + (cp \div 262144), 128 + ((cp \div 4096) % 64),
           128 + ((cp \div 64) % 64), 128 + (cp % 64)>>

\* str.encode("utf-8")
RECURSIVE Encode(_)
Encode(s) == IF s = <<>> THEN <<>> ELSE EncodeChar(Head(s)) \o Encode(Tail(s))

\* the characters at which str.splitlines() breaks a line
StrLineBreaks == {10, 11, 12, 13, 28, 29, 30, 133, 8232, 8233}

\* the characters at which bytes.splitlines() breaks a line
BytesLineBreaks == {10, 13}

\* splitlines(keepends=True): "\r\n" is one terminator; no empty last line
RECURSIVE SplitLines(_, _)
SplitLines(s, breaks) ==
    IF s = <<>> THEN <<>>
    ELSE LET at == { i \in 1..Len(s) : s[i] \in breaks } IN
         IF at = {} THEN <<s>>
         ELSE LET i == CHOOSE k \in at : \A j \in at : k <= j
                  e == IF s[i] = 13 /\ i < Len(s) /\ s[i + 1] = 10 THEN i + 1 ELSE i
              IN <<SubSeq(s, 1, e)>> \o SplitLines(SubSeq(s, e + 1, Len(s)), breaks)

\* "".join(lines[:n])
RECURSIVE JoinFirst(_, _)
JoinFirst(lines, n) ==
    IF n = 0 \/ lines = <<>> THEN <<>>
    ELSE Head(lines) \o JoinFirst(Tail(lines), n - 1)

\* b[start:end] for 0 <= start <= end <= len(b)
Slice(b, start, end) == SubSeq(b, start + 1, end)

-----------------------------------------------------------------------------
(* Names used in the corpora of the model *)

DOTDOT       == <<46, 46>>                                          \* ".."
DOT          == <<46>>                                              \* "."
SLASH        == <<47>>                                              \* "/"
SegEtc       == <<101, 116, 99>>                                    \* "etc"
SegPasswd    == <<112, 97, 115, 115, 119, 100>>                     \* "passwd"
SegData      == <<100, 97, 116, 97>>                                \* "data"
SegCorpus    == <<99, 111, 114, 112, 117, 115>>                     \* "corpus"
SegOther     == <<99, 111, 114, 112, 117, 115, 45, 111, 116, 104, 101, 114>>  \* "corpus-other"
SegXmd       == <<120, 46, 109, 100>>                               \* "x.md"
SegLink      == <<108, 105, 110, 107>>                              \* "link"

\* ALLOWED_EXTENSIONS = {".txt", ".md"}
ALLOWED_EXTENSIONS == { <<46, 116, 120, 116>>, <<46, 109, 100>> }

-----------------------------------------------------------------------------
(* pathlib *)

\* str(path) of an absolute path
StrOf(path) ==
    IF path = <<>> THEN SLASH
    ELSE LET RECURSIVE Join(_)
             Join(i) == IF i > Len(path) THEN <<>>
                        ELSE SLASH \o path[i] \o Join(i + 1)
         IN Join(1)

\* path-segment containment: inner is base or lies below base
IsRelativeTo(inner, base) ==
    /\ Len(base) <= Len(inner)
    /\ SubSeq(inner, 1, Len(base)) = base

\* PurePath.suffix: the last dot-separated part of the final component
Suffix(path) ==
    IF path = <<>> THEN <<>>
    ELSE LET name == path[Len(path)]
             dots == { i \in 1..Len(name) : name[i] = 46 }
         IN IF dots = {} THEN <<>>
            ELSE LET i == CHOOSE d \in dots : \A e \in dots : e <= d
                 IN IF i > 1 /\ i < Len(name)
                    THEN SubSeq(name, i, Len(name))
                    ELSE <<>>

HasAllowedExtension(path) == Lower(Suffix(path)) \in ALLOWED_EXTENSIONS

\* the filesystem entry kinds
IsLink(d, p) == p \in DOMAIN d /\ d[p].kind = "link"

\* Path.is_file(): a regular file, or a symlink to one
IsFile(d, p) ==
    /\ p \in DOMAIN d
    /\ \/ d[p].kind = "file"
       \/ d[p].kind = "link" /\ d[p].target \in DOMAIN d
                             /\ d[d[p].target].kind = "file"

\* Path.is_dir(): some entry lies below p, or p is a symlink to such a path
IsRealDir(d, p) ==
    /\ p \notin DOMAIN d
    /\ \E q \in DOMAIN d : Len(q) > Len(p) /\ IsRelativeTo(q, p)

IsDir(d, p) ==
    \/ IsRealDir(d, p)
    \/ IsLink(d, p) /\ IsRealDir(d, d[p].target)

\* Path.resolve(): "." dropped, ".." pops, symlinks followed, left to right
RECURSIVE Walk(_, _, _)
Walk(d, acc, rest) ==
    IF rest = <<>> THEN acc
    ELSE LET s == Head(rest) IN
         IF s = DOT THEN Walk(d, acc, Tail(rest))
         ELSE IF s = DOTDOT
              THEN Walk(d, IF acc = <<>> THEN <<>> ELSE SubSeq(acc, 1, Len(acc) - 1),
                        Tail(rest))
              ELSE LET nxt == Append(acc, s) IN
                   IF IsLink(d, nxt) THEN Walk(d, d[nxt].target, Tail(rest))
                   ELSE Walk(d, nxt, Tail(rest))

Resolve(d, path) == Walk(d, <<>>, path)

\* self.root / relative_path: an absolute right operand replaces the left one
JoinPath(base, rel) == IF rel.abs THEN rel.segs ELSE base \o rel.segs

\* Path.rglob("*"): every entry below base, symlinked directories not entered
RGlob(d, base) ==
    IF ~IsRealDir(d, base) /\ ~(IsLink(d, base) /\ IsDir(d, base)) THEN {}
    ELSE LET top == IF IsLink(d, base) THEN d[base].target ELSE base
             below == { e \in DOMAIN d : Len(e) > Len(top) /\ IsRelativeTo(e, top) }
             inLink(p) == \E k \in (Len(top) + 1)..(Len(p) - 1) :
                              IsLink(d, SubSeq(p, 1, k))
         IN { p \in UNION { { SubSeq(q, 1, k) : k \in (Len(top) + 1)..Len(q) } :
                            q \in below } : ~inLink(p) }

-----------------------------------------------------------------------------
(* Outcomes of a call *)

\* shutil.which("rg"): no matcher installed, or one of the two kinds of build,
\* which differ in what they emit for a matching line that follows the last
\* counted match of a file inside its trailing context: the builds that
\* count --max-count in the printer emit it as a match, the builds that count
\* in the searcher emit it as context
RgAbsent        == "absent"
RgPrinterLimit  == "limit in printer"
RgSearcherLimit == "limit in searcher"

Raise(err, touched) == [status |-> "raise", error |-> err, touched |-> touched]
Return(value, touched) == [status |-> "ok", value |-> value, touched |-> touched]

NoRequest == [op |-> "none"]
NoResponse == [status |-> "none"]

-----------------------------------------------------------------------------
(* class Sandbox *)

\* Sandbox.resolve_inside: [ok, path] - ok = FALSE is the PermissionError
\* "Path breakout attempt detected"
resolve_inside(relative_path) ==
    LET candidate == Resolve(disk, JoinPath(root, relative_path)) IN
    IF ~StartsWith(StrOf(candidate), StrOf(root))
    THEN [ok |-> FALSE, path |-> <<>>]
    ELSE [ok |-> TRUE, path |-> candidate]

\* p.relative_to(self.root).as_posix(); "ValueError" when p is not below root
RelativeTo(p, base) ==
    IF IsRelativeTo(p, base)
    THEN [ok |-> TRUE, rel |-> SubSeq(p, Len(base) + 1, Len(p))]
    ELSE [ok |-> FALSE, rel |-> <<>>]

\* Path.as_posix() of a relative path
RECURSIVE AsPosix(_)
AsPosix(rel) ==
    IF rel = <<>> THEN DOT
    ELSE IF Len(rel) = 1 THEN rel[1]
    ELSE rel[1] \o SLASH \o AsPosix(Tail(rel))

\* the entries directly in subdir only
list_paths_flat(subdir) ==
    LET base == resolve_inside(subdir) IN
    IF ~base.ok THEN Raise("PermissionError", {})
    ELSE LET seen  == { p \in RGlob(disk, base.path) : Len(p) = Len(base.path) + 1 }
             found == { p \in seen : IsFile(disk, p) /\ HasAllowedExtension(p) }
         IN IF \E p \in found : ~RelativeTo(p, root).ok
            THEN Raise("ValueError", {base.path} \cup seen)
            ELSE Return([files |-> { AsPosix(RelativeTo(p, root).rel) : p \in found }],
                        {base.path} \cup seen)

\* Sandbox.list_paths / list_paths: the files, as a set (rglob yields a path
\* once, in the order of the directory scan)
list_paths(subdir) ==
    LET base == resolve_inside(subdir) IN
    IF ~base.ok THEN Raise("PermissionError", {})
    ELSE LET seen  == RGlob(disk, base.path)
             found == { p \in seen : IsFile(disk, p) /\ HasAllowedExtension(p) }
         IN IF \E p \in found : ~RelativeTo(p, root).ok
            THEN Raise("ValueError", {base.path} \cup seen)
            ELSE Return([files |-> { AsPosix(RelativeTo(p, root).rel) : p \in found }],
                        {base.path} \cup seen)

-----------------------------------------------------------------------------
(* Configuration defaults and the range reader *)

\* Config.context_bytes
context_bytes == 300

\* the default of read_file_range's max_lines parameter
DefaultMaxLines == 20

\* the bytes open(p, "rb").read() returns (symlinks are followed)
FileBytes(d, p) == IF d[p].kind = "link" THEN d[d[p].target].bytes ELSE d[p].bytes

\* read_file_range(path, start, end, context, max_lines); context and
\* max_lines are optional (None or a value)
read_file_range(path, start, end, context, max_lines) ==
    LET ctx      == IF context = None THEN context_bytes ELSE ValueOf(context)
        abs_path == resolve_inside(path)
    IN
    IF ~abs_path.ok THEN Raise("PermissionError", {})
    ELSE IF IsDir(disk, abs_path.path) THEN Raise("IsADirectoryError", {})
    ELSE IF ~IsFile(disk, abs_path.path) THEN Raise("FileNotFoundError", {})
    ELSE
    LET file_bytes == FileBytes(disk, abs_path.path)
        start1 == Max(0, start - ctx)
        end1   == end + ctx
        start2 == Max(0, Min(start1, Len(file_bytes)))
        end2   == Max(start2, Min(end1, Len(file_bytes)))
        text   == Decode(Slice(file_bytes, start2, end2))
        lines  == SplitLines(text, StrLineBreaks)
        cut    == /\ max_lines # None
                  /\ ValueOf(max_lines) > 0
                  /\ Len(lines) > ValueOf(max_lines)
        text2  == IF cut THEN JoinFirst(lines, ValueOf(max_lines)) ELSE text
        end3   == IF cut THEN start2 + Len(Encode(text2)) ELSE end2
    IN Return([path |-> path, start |-> start2, end |-> end3, text |-> text2],
              {abs_path.path})

-----------------------------------------------------------------------------
(* server.handle_call and the agent's dispatcher *)

\* the keyword parameters of tools.read_file_range and those without default
ReadFileRangeParams == {"path", "start", "end", "context", "max_lines"}
ReadFileRangeRequired == {"path", "start", "end"}

\* tools.read_file_range(**args): a keyword the function does not have, or a
\* missing required one, is a TypeError
read_file_range_kwargs(args) ==
    IF ~(DOMAIN args \subseteq ReadFileRangeParams) THEN Raise("TypeError", {})
    ELSE IF ~(ReadFileRangeRequired \subseteq DOMAIN args) THEN Raise("TypeError", {})
    ELSE read_file_range(
            args["path"], args["start"], args["end"],
            IF "context" \in DOMAIN args THEN Some(args["context"]) ELSE None,
            IF "max_lines" \in DOMAIN args THEN Some(args["max_lines"])
            ELSE Some(DefaultMaxLines))

\* server.handle_call for method "call_tool": every exception of the tool
\* becomes a JSON-RPC error object
handle_call(tool, args) ==
    LET result == IF tool = "read_file_range" THEN read_file_range_kwargs(args)
                  ELSE IF tool = "list_paths"
                       THEN IF DOMAIN args \subseteq {"subdir"}
                            THEN list_paths(IF "subdir" \in DOMAIN args
                                            THEN args["subdir"]
                                            ELSE [abs |-> FALSE, segs |-> <<DOT>>])
                            ELSE Raise("TypeError", {})
                  ELSE Raise("ValueError", {})
    IN IF result.status = "raise"
       THEN [error |-> result.error, touched |-> result.touched]
       ELSE [result |-> result.value, touched |-> result.touched]

\* MCPClient.call_tool: an error object is raised as RuntimeError
call_tool(tool, args) ==
    LET resp == handle_call(tool, args) IN
    IF "error" \in DOMAIN resp THEN Raise("RuntimeError", resp.touched)
    ELSE Return(resp.result, resp.touched)

\* the dispatcher's "x or default"
OrDefault(opt, default) ==
    IF opt = None \/ ValueOf(opt) = 0 THEN default ELSE ValueOf(opt)

DispatchContextLines == 2
DispatchMaxLines == 10

\* dispatch_read_file_range: the parameters sent to the server
dispatch_params(path, start, end, context, max_lines, line_number, context_lines) ==
    IF line_number # None
    THEN [path |-> path,
          line_number |-> ValueOf(line_number),
          context_lines |-> OrDefault(context_lines, DispatchContextLines),
          max_lines |-> OrDefault(max_lines, DispatchMaxLines)]
    ELSE [path |-> path,
          start |-> ValueOf(start),
          end |-> ValueOf(end),
          context |-> OrDefault(context, context_bytes),
          max_lines |-> OrDefault(max_lines, DispatchMaxLines)]

dispatch_read_file_range(path, start, end, context, max_lines, line_number, context_lines) ==
    IF line_number = None /\ (start = None \/ end = None)
    THEN Raise("ValueError", {})
    ELSE call_tool("read_file_range",
                   dispatch_params(path, start, end, context, max_lines,
                                   line_number, context_lines))

-----------------------------------------------------------------------------
(* Boolean query compiler: _parse_boolean_query_to_dnf *)

OpAND  == <<65, 78, 68>>      \* "AND"
OpOR   == <<79, 82>>          \* "OR"
LPAREN == <<40>>              \* "("
RPAREN == <<41>>              \* ")"
SPACE  == <<32>>              \* " "

\* \s of the re module (str patterns)
IsSpace(c) ==
    c \in (9..13) \cup (28..32) \cup {133, 160, 5760} \cup (8192..8202)
          \cup {8232, 8233, 8239, 8287, 12288}

\* \w of the re module, for the code points up to U+00FF
IsWord(c) ==
    c \in (48..57) \cup (65..90) \cup {95} \cup (97..122)
          \cup {170, 178, 179, 181, 185, 186, 188, 189, 190}
          \cup (192..214) \cup (216..246) \cup (248..255)

\* \b at the gap before index i of s
IsBoundary(s, i) ==
    LET before == i > 1 /\ i - 1 <= Len(s) /\ IsWord(s[i - 1])
        after  == i >= 1 /\ i <= Len(s) /\ IsWord(s[i])
    IN before # after

\* \bAND\b or \bOR\b (re.IGNORECASE) matches at index i
MatchesKeyword(s, i, word) ==
    /\ i + Len(word) - 1 <= Len(s)
    /\ Upper(SubSeq(s, i, i + Len(word) - 1)) = word
    /\ IsBoundary(s, i)
    /\ IsBoundary(s, i + Len(word))

IsTermChar(c) == ~IsSpace(c) /\ c # 40 /\ c # 41

\* end of the maximal run [^()\s]+ that starts at index i
RECURSIVE RunEnd(_, _)
RunEnd(s, i) ==
    IF i + 1 <= Len(s) /\ IsTermChar(s[i + 1]) THEN RunEnd(s, i + 1) ELSE i

\* one step of token_re.findall(query) at index i: the token found there, if
\* any, and the index the scan goes on from; alternatives are tried in the
\* order of the pattern
TokenAt(s, i) ==
    IF s[i] = 40 \/ s[i] = 41 THEN [toks |-> <<<<s[i]>>>>, next |-> i + 1]
    ELSE IF MatchesKeyword(s, i, OpAND)
         THEN [toks |-> <<SubSeq(s, i, i + 2)>>, next |-> i + 3]
    ELSE IF MatchesKeyword(s, i, OpOR)
         THEN [toks |-> <<SubSeq(s, i, i + 1)>>, next |-> i + 2]
    ELSE IF IsTermChar(s[i])
         THEN [toks |-> <<SubSeq(s, i, RunEnd(s, i))>>, next |-> RunEnd(s, i) + 1]
    ELSE [toks |-> <<>>, next |-> i + 1]

\* token_re.findall(query)
RECURSIVE Tokenize(_, _)
Tokenize(s, i) ==
    IF i > Len(s) THEN <<>>
    ELSE TokenAt(s, i).toks \o Tokenize(s, TokenAt(s, i).next)

\* peek(): the token at pos, or none at the end (pos counts consumed tokens)
AtEnd(tokens, pos) == pos >= Len(tokens)
Peek(tokens, pos) == tokens[pos + 1]

\* is_op(peek(), name)
is_op(tokens, pos, name) == ~AtEnd(tokens, pos) /\ Upper(Peek(tokens, pos)) = name

\* every occurrence kept
KeepAll(xs) == xs

\* list(dict.fromkeys(xs)): first occurrences, in order
RECURSIVE Dedup(_)
Dedup(xs) ==
    IF xs = <<>> THEN <<>>
    ELSE LET init == Dedup(SubSeq(xs, 1, Len(xs) - 1))
             last == xs[Len(xs)]
         IN IF \E i \in 1..Len(init) : init[i] = last THEN init ELSE Append(init, last)

\* [dedup(a + b) for a in factors for b in rhs]
RECURSIVE CrossProduct(_, _, _)
CrossProduct(factors, rhs, k) ==
    IF k >= Len(factors) * Len(rhs) THEN <<>>
    ELSE LET a == factors[(k \div Len(rhs)) + 1]
             b == rhs[(k % Len(rhs)) + 1]
         IN <<Dedup(a \o b)>> \o CrossProduct(factors, rhs, k + 1)

\* AND treated like OR: the conjunctions of both sides, side by side
Concatenate(factors, rhs) == factors \o rhs

\* distribute AND over the conjunctions collected so far
Distribute(factors, rhs) == CrossProduct(factors, rhs, 0)

\* parse_expr / parse_term / parse_factor return [dnf, pos]
RECURSIVE parse_expr(_, _)
RECURSIVE parse_expr_loop(_, _, _)
RECURSIVE parse_term(_, _)
RECURSIVE parse_term_loop(_, _, _)
RECURSIVE parse_factor(_, _)

parse_factor(tokens, pos) ==
    IF AtEnd(tokens, pos) THEN [dnf |-> <<<<>>>>, pos |-> pos]
    ELSE LET tok == Peek(tokens, pos) IN
         IF tok = LPAREN
         THEN LET inner == parse_expr(tokens, pos + 1) IN
              IF ~AtEnd(tokens, inner.pos) /\ Peek(tokens, inner.pos) = RPAREN
              THEN [dnf |-> inner.dnf, pos |-> inner.pos + 1]
              ELSE inner
         ELSE IF Upper(tok) \in {OpAND, OpOR, RPAREN}
              THEN [dnf |-> <<<<>>>>, pos |-> pos + 1]
              ELSE [dnf |-> <<<<tok>>>>, pos |-> pos + 1]

parse_term_loop(tokens, factors, pos) ==
    IF is_op(tokens, pos, OpAND)
    THEN LET rhs == parse_factor(tokens, pos + 1) IN
         parse_term_loop(tokens, Distribute(factors, rhs.dnf), rhs.pos)
    ELSE [dnf |-> factors, pos |-> pos]

parse_term(tokens, pos) ==
    LET first == parse_factor(tokens, pos) IN
    parse_term_loop(tokens, first.dnf, first.pos)

parse_expr_loop(tokens, terms, pos) ==
    IF is_op(tokens, pos, OpOR)
    THEN LET rhs == parse_term(tokens, pos + 1) IN
         parse_expr_loop(tokens, terms \o rhs.dnf, rhs.pos)
    ELSE [dnf |-> terms, pos |-> pos]

parse_expr(tokens, pos) ==
    LET first == parse_term(tokens, pos) IN
    parse_expr_loop(tokens, first.dnf, first.pos)

\* [conj for conj in dnf if any(t for t in conj)]
RECURSIVE DropEmpty(_)
DropEmpty(dnf) ==
    IF dnf = <<>> THEN <<>>
    ELSE (IF \E i \in 1..Len(Head(dnf)) : Head(dnf)[i] # <<>>
          THEN <<Head(dnf)>> ELSE <<>>) \o DropEmpty(Tail(dnf))

\* _parse_boolean_query_to_dnf(query) -> (used_boolean, dnf)
parse_boolean_query_to_dnf(query) ==
    LET raw_tokens == Tokenize(query, 1) IN
    IF raw_tokens = <<>> THEN [used_boolean |-> FALSE, dnf |-> <<>>]
    ELSE [used_boolean |->
              \E i \in 1..Len(raw_tokens) :
                  \/ Upper(raw_tokens[i]) \in {OpAND, OpOR}
                  \/ raw_tokens[i] \in {LPAREN, RPAREN},
          dnf |-> DropEmpty(parse_expr(raw_tokens, 0).dnf)]

-----------------------------------------------------------------------------
(* The query compiler call by call: the frames of parse_expr, parse_term    *)
(* and parse_factor on the interpreter's stack                               *)

\* sys.getrecursionlimit(): the most frames the interpreter lets a thread
\* hold before it raises RecursionError
RecursionLimit == 1000

\* the frames in use when the body of _parse_boolean_query_to_dnf runs for
\* a call of the server: <module>, main, handle_call, file_search and
\* _parse_boolean_query_to_dnf itself
CallerFrames == 5

\* A state m of the compiler is [tokens, pos, stack, ret, error]; a frame of
\* the stack is [fn, pc, acc] (the function, the place it goes on from, and
\* its local terms / factors / inner).
\* a call chain of `need` more frames does not fit: peek() and is_op() need
\* one frame, consume() (which calls peek()) two, a parse function one
Overflows(m, need) == CallerFrames + Len(m.stack) + need > RecursionLimit

RecursionError(m) == [m EXCEPT !.error = Some("RecursionError")]

\* return value: the frame is left and the value handed to the caller
ReturnValue(m, value) ==
    [m EXCEPT !.stack = SubSeq(@, 1, Len(@) - 1), !.ret = value]

\* the running frame notes where it goes on (pc, acc) and calls fn
CallFrom(m, pc, acc, fn) ==
    [m EXCEPT !.stack = SubSeq(@, 1, Len(@) - 1)
                        \o <<[fn |-> m.stack[Len(m.stack)].fn, pc |-> pc, acc |-> acc]>>
                        \o <<[fn |-> fn, pc |-> "enter", acc |-> <<>>]>>]

\* parse_expr (op = OR, the operands come from parse_term and are appended)
\* and parse_term (op = AND, the operands come from parse_factor and are
\* distributed), from the running frame's pc to its next call or its return
parse_loop_frame(m, op, operand) ==
    LET f      == m.stack[Len(m.stack)]
        values == IF f.pc = "first" THEN m.ret
                  ELSE IF op = OpOR THEN f.acc \o m.ret
                  ELSE Distribute(f.acc, m.ret)
    IN IF f.pc = "enter"
       THEN IF Overflows(m, 1) THEN RecursionError(m)
            ELSE CallFrom(m, "first", <<>>, operand)
       ELSE IF Overflows(m, 1) THEN RecursionError(m)
       ELSE IF is_op(m.tokens, m.pos, op)
            THEN IF Overflows(m, 2) THEN RecursionError(m)
                 ELSE CallFrom([m EXCEPT !.pos = @ + 1], "rhs", values, operand)
       ELSE ReturnValue(m, values)

parse_expr_frame(m) == parse_loop_frame(m, OpOR, "parse_term")

parse_term_frame(m) == parse_loop_frame(m, OpAND, "parse_factor")

\* parse_factor, from the running frame's pc to its next call or its return
parse_factor_frame(m) ==
    LET f == m.stack[Len(m.stack)] IN
    IF Overflows(m, 1) THEN RecursionError(m)
    ELSE IF f.pc = "inner"
         THEN IF ~AtEnd(m.tokens, m.pos) /\ Peek(m.tokens, m.pos) = RPAREN
              THEN IF Overflows(m, 2) THEN RecursionError(m)
                   ELSE ReturnValue([m EXCEPT !.pos = @ + 1], m.ret)
              ELSE ReturnValue(m, m.ret)
    ELSE IF AtEnd(m.tokens, m.pos) THEN ReturnValue(m, <<<<>>>>)
    ELSE IF Overflows(m, 2) THEN RecursionError(m)
    ELSE LET tok == Peek(m.tokens, m.pos) IN
         IF tok = LPAREN
         THEN CallFrom([m EXCEPT !.pos = @ + 1], "inner", <<>>, "parse_expr")
         ELSE IF Upper(tok) \in {OpAND, OpOR, RPAREN}
              THEN ReturnValue([m EXCEPT !.pos = @ + 1], <<<<>>>>)
              ELSE ReturnValue([m EXCEPT !.pos = @ + 1], <<<<tok>>>>)

\* the call dnf = parse_expr() of _parse_boolean_query_to_dnf
EnterCompiler(raw_tokens) ==
    [tokens |-> raw_tokens, pos |-> 0,
     stack |-> <<[fn |-> "parse_expr", pc |-> "enter", acc |-> <<>>]>>,
     ret |-> <<>>, error |-> None]

\* what _parse_boolean_query_to_dnf returns once parse_expr has returned
LeaveCompiler(m) ==
    [used_boolean |->
         \E i \in 1..Len(m.tokens) :
             \/ Upper(m.tokens[i]) \in {OpAND, OpOR}
             \/ m.tokens[i] \in {LPAREN, RPAREN},
     dnf |-> DropEmpty(m.ret)]

-----------------------------------------------------------------------------
(* Whole-file boolean search: file_search *)

\* Config.glob = "**/*.{txt,md}" and Config.max_results
ConfigGlob == <<42, 42, 47, 42, 46, 123, 116, 120, 116, 44, 109, 100, 125>>
ConfigMaxResults == 50

\* index of the first occurrence of character c in s, 0 when absent (find + 1)
FirstIndex(s, c) ==
    LET at == { i \in 1..Len(s) : s[i] = c } IN
    IF at = {} THEN 0 ELSE CHOOSE i \in at : \A j \in at : i <= j

LastIndex(s, c) ==
    LET at == { i \in 1..Len(s) : s[i] = c } IN
    IF at = {} THEN 0 ELSE CHOOSE i \in at : \A j \in at : i >= j

\* s.split(c): the parts between the occurrences of character c
RECURSIVE SplitOn(_, _)
SplitOn(s, c) ==
    LET i == FirstIndex(s, c) IN
    IF i = 0 THEN <<s>>
    ELSE <<SubSeq(s, 1, i - 1)>> \o SplitOn(SubSeq(s, i + 1, Len(s)), c)

\* s.strip()
RECURSIVE Strip(_)
Strip(s) ==
    IF s = <<>> THEN s
    ELSE IF IsSpace(s[1]) THEN Strip(Tail(s))
    ELSE IF IsSpace(s[Len(s)]) THEN Strip(SubSeq(s, 1, Len(s) - 1))
    ELSE s

\* s.split(): the maximal runs of non-whitespace characters
RECURSIVE SplitWords(_)
SplitWords(s) ==
    LET t == Strip(s) IN
    IF t = <<>> THEN <<>>
    ELSE LET ws == { i \in 1..Len(t) : IsSpace(t[i]) } IN
         IF ws = {} THEN <<t>>
         ELSE LET i == CHOOSE k \in ws : \A j \in ws : k <= j
              IN <<SubSeq(t, 1, i - 1)>> \o SplitWords(SubSeq(t, i + 1, Len(t)))

\* the brace expansion of file_search: one pattern per non-blank variant
RECURSIVE ExpandVariants(_, _, _)
ExpandVariants(prefix, parts, suffix) ==
    IF parts = <<>> THEN <<>>
    ELSE (IF Strip(Head(parts)) = <<>> THEN <<>>
          ELSE <<prefix \o Strip(Head(parts)) \o suffix>>)
         \o ExpandVariants(prefix, Tail(parts), suffix)

GlobPatterns(considered_glob) ==
    LET open  == FirstIndex(considered_glob, 123)
        close == FirstIndex(considered_glob, 125)
    IN IF open > 0 /\ close > 0
       THEN LET prefix == SubSeq(considered_glob, 1, open - 1)
                suffix == SubSeq(considered_glob, LastIndex(considered_glob, 125) + 1,
                                 Len(considered_glob))
                inner  == SubSeq(considered_glob, open + 1, close - 1)
            IN ExpandVariants(prefix, SplitOn(inner, 44), suffix)
       ELSE <<considered_glob>>

\* fnmatch.fnmatchcase(name, pat) for patterns of literals, "*" and "?":
\* "*" matches any run of characters, "/" included
RECURSIVE FnMatchFrom(_, _, _, _)
FnMatchFrom(name, i, pat, j) ==
    IF j > Len(pat) THEN i > Len(name)
    ELSE IF pat[j] = 42
         THEN \/ FnMatchFrom(name, i, pat, j + 1)
              \/ i <= Len(name) /\ FnMatchFrom(name, i + 1, pat, j)
    ELSE IF pat[j] = 63
         THEN i <= Len(name) /\ FnMatchFrom(name, i + 1, pat, j + 1)
    ELSE i <= Len(name) /\ name[i] = pat[j] /\ FnMatchFrom(name, i + 1, pat, j + 1)

fnmatchcase(name, pat) == FnMatchFrom(name, 1, pat, 1)

\* text-mode reading translates "\r\n" and "\r" to "\n"
RECURSIVE UniversalNewlines(_)
UniversalNewlines(s) ==
    IF s = <<>> THEN <<>>
    ELSE IF s[1] = 13
         THEN <<10>> \o UniversalNewlines(
                           IF Len(s) >= 2 /\ s[2] = 10 THEN SubSeq(s, 3, Len(s))
                           ELSE Tail(s))
    ELSE <<s[1]>> \o UniversalNewlines(Tail(s))

\* Path.read_text(encoding="utf-8", errors="replace")
read_text(d, p) == UniversalNewlines(Decode(FileBytes(d, p)))

\* the entries of a set of paths in directory-scan order
RECURSIVE InScanOrder(_, _)
InScanOrder(d, paths) ==
    IF paths = {} THEN <<>>
    ELSE LET p == CHOOSE x \in paths : \A y \in paths : d[x].rank <= d[y].rank
         IN <<p>> \o InScanOrder(d, paths \ {p})

\* the term sets file_search matches with
TermSets(query) ==
    IF query = <<>> THEN <<>>
    ELSE LET parsed == parse_boolean_query_to_dnf(query)
             words  == SplitWords(query)
         IN IF parsed.used_boolean /\ parsed.dnf # <<>> THEN parsed.dnf
            ELSE IF Len(words) > 1 THEN <<words>>
            ELSE <<<<query>>>>

\* all(term in hay for term in conj_terms)
AllTermsIn(conj, hay, case_sensitive) ==
    \A i \in 1..Len(conj) :
        conj[i] # <<>> =>
            Contains(hay, IF case_sensitive THEN conj[i] ELSE Lower(conj[i]))

\* the loop over the files, in scan order, with the early stop at the limit
RECURSIVE FileSearchLoop(_, _, _, _, _, _)
FileSearchLoop(files, matched, patterns, term_sets, case_sensitive, limit) ==
    IF files = <<>> THEN matched
    ELSE LET file_path == Head(files)
             rel       == AsPosix(RelativeTo(file_path, root).rel)
             content   == read_text(disk, file_path)
             hay       == IF case_sensitive THEN content ELSE Lower(content)
             sets      == IF term_sets = <<>> THEN <<<<>>>> ELSE term_sets
         IN IF patterns # <<>>
               /\ ~\E k \in 1..Len(patterns) : fnmatchcase(rel, patterns[k])
            THEN FileSearchLoop(Tail(files), matched, patterns, term_sets,
                                case_sensitive, limit)
            ELSE IF \E k \in 1..Len(sets) : AllTermsIn(sets[k], hay, case_sensitive)
                 THEN IF Len(matched) + 1 >= limit
                      THEN Append(matched, rel)
                      ELSE FileSearchLoop(Tail(files), Append(matched, rel), patterns,
                                          term_sets, case_sensitive, limit)
                 ELSE FileSearchLoop(Tail(files), matched, patterns, term_sets,
                                     case_sensitive, limit)

\* file_search(query, glob, case_sensitive, max_results); query, glob and
\* max_results are optional
file_search(query, glob, case_sensitive, max_results) ==
    LET considered_glob == IF glob = None \/ ValueOf(glob) = <<>>
                           THEN ConfigGlob ELSE ValueOf(glob)
        limit == OrDefault(max_results, ConfigMaxResults)
        q     == IF query = None THEN <<>> ELSE ValueOf(query)
        files == InScanOrder(disk, { p \in RGlob(disk, root) :
                                       IsFile(disk, p) /\ HasAllowedExtension(p) })
    IN Return([files |-> FileSearchLoop(files, <<>>, GlobPatterns(considered_glob),
                                        TermSets(q), case_sensitive, limit)],
              { files[i] : i \in 1..Len(files) })

-----------------------------------------------------------------------------
(* Line search: the pattern search_rg hands to the matcher, and the matcher *)

\* the defaults of max_results and context_lines
SearchMaxResults == 20
SearchContextLines == 2

\* index of the first character at or after i that is not whitespace
RECURSIVE SkipSpace(_, _)
SkipSpace(s, i) ==
    IF i <= Len(s) /\ IsSpace(s[i]) THEN SkipSpace(s, i + 1) ELSE i

\* " OR " in query.upper()
IsOrQuery(query) == Contains(Upper(query), SPACE \o OpOR \o SPACE)

\* re.split(r'\s+OR\s+', query, flags=re.IGNORECASE)
RECURSIVE SplitOr(_)
SplitOr(q) ==
    LET at == { i \in 1..Len(q) :
                  /\ IsSpace(q[i])
                  /\ LET j == SkipSpace(q, i) IN
                     /\ j + 2 <= Len(q)
                     /\ Upper(SubSeq(q, j, j + 1)) = OpOR
                     /\ IsSpace(q[j + 2]) }
    IN IF at = {} THEN <<q>>
       ELSE LET i == CHOOSE k \in at : \A j \in at : k <= j
                e == SkipSpace(q, SkipSpace(q, i) + 2)
            IN <<SubSeq(q, 1, i - 1)>> \o SplitOr(SubSeq(q, e, Len(q)))

\* the pattern given to the matcher, as the list of the literals it is an
\* alternation of: the query itself (-F), or the stripped and escaped parts
\* of an OR query joined with "|" (-P)
RECURSIVE StripEach(_)
StripEach(parts) ==
    IF parts = <<>> THEN <<>>
    ELSE <<Strip(Head(parts))>> \o StripEach(Tail(parts))

SearchAlternatives(query) ==
    IF IsOrQuery(query) THEN StripEach(SplitOr(query)) ELSE <<query>>

\* the matcher finds the literal lit at byte offset k of a line; with -i the
\* comparison is by case-folded characters
LiteralAt(line, k, lit, case_sensitive) ==
    LET n == Len(Encode(lit)) IN
    /\ k + n <= Len(line)
    /\ LET sub == Slice(line, k, k + n) IN
       IF case_sensitive THEN sub = Encode(lit)
       ELSE IsValidUtf8(sub) /\ Lower(Decode(sub)) = Lower(lit)

\* the byte offsets of a line at which some alternative matches
SubmatchStarts(line, alts, case_sensitive) ==
    { k \in 0..Len(line) :
        \E a \in DOMAIN alts : LiteralAt(line, k, alts[a], case_sensitive) }

\* the first submatch of a matching line: leftmost, and at that offset the
\* first alternative that matches; offsets are relative to the line start
FirstSubmatch(line, alts, case_sensitive) ==
    LET starts == SubmatchStarts(line, alts, case_sensitive)
        k == CHOOSE x \in starts : \A y \in starts : x <= y
        as == { a \in DOMAIN alts : LiteralAt(line, k, alts[a], case_sensitive) }
        a == CHOOSE x \in as : \A y \in as : x <= y
    IN [start |-> k, end |-> k + Len(Encode(alts[a]))]

\* the lines of a file as the matcher numbers them: only "\n" ends a line
RgLines(bytes) == SplitLines(bytes, {10})

\* what the matcher emits for line n of a file: "match", "context" or
\* "none".  plan holds the matching lines of the file (hit), those that
\* --max-count counts (counted), the last of them (last), whether the count
\* was reached (capped), the -C value and the build.  Once the count is
\* reached the matcher still emits the trailing context of the last counted
\* match, and nothing after it.
EventKind(plan, n) ==
    LET near == \E m \in plan.counted :
                    n - m <= plan.context /\ m - n <= plan.context
        tail == plan.capped /\ n > plan.last /\ n <= plan.last + plan.context
    IN IF tail
       THEN IF plan.build = RgPrinterLimit /\ n \in plan.hit
            THEN "match" ELSE "context"
       ELSE IF plan.capped /\ n > plan.last THEN "none"
       ELSE IF n \in plan.hit THEN "match"
       ELSE IF near THEN "context"
       ELSE "none"

\* the events of the lines n.. of a file, in the order of the lines; text is
\* the line with its terminator, or None when the line is not valid UTF-8
\* (the event then carries "bytes" and no "text")
RECURSIVE EventsFrom(_, _, _)
EventsFrom(lines, n, plan) ==
    IF n > Len(lines) THEN <<>>
    ELSE (IF EventKind(plan, n) = "none" THEN <<>>
          ELSE <<[line |-> n,
                  kind |-> EventKind(plan, n),
                  text |-> IF IsValidUtf8(lines[n]) THEN Some(Decode(lines[n]))
                           ELSE None]>>)
         \o EventsFrom(lines, n + 1, plan)

\* the "match" and "context" events the matcher emits for one file;
\* --max-count counts the matching lines of the file
RgEvents(bytes, alts, case_sensitive, max_count, context, build) ==
    LET lines   == RgLines(bytes)
        hit     == { n \in 1..Len(lines) :
                       SubmatchStarts(lines[n], alts, case_sensitive) # {} }
        counted == { n \in hit : Cardinality({ m \in hit : m <= n }) <= max_count }
    IN IF max_count = 0 \/ hit = {} THEN <<>>
       ELSE Let([hit     |-> hit,
                 counted |-> counted,
                 capped  |-> Cardinality(hit) >= max_count,
                 last    |-> CHOOSE n \in counted : \A m \in counted : m <= n,
                 context |-> context,
                 build   |-> build],
                LAMBDA plan : EventsFrom(lines, 1, plan))

-----------------------------------------------------------------------------
(* Line search: what search_rg makes of the matcher's events *)

\* proc.stdout.splitlines() cuts an event's JSON line in two, and json.loads
\* then drops both halves, when the line holds one of the line boundaries
\* that JSON leaves unescaped (NEL, LS, PS)
JsonLineSurvives(text) ==
    \A i \in 1..Len(text) : text[i] \notin {133, 8232, 8233}

\* text.rstrip("\n")
RECURSIVE RStripNewline(_)
RStripNewline(s) ==
    IF s # <<>> /\ s[Len(s)] = 10 THEN RStripNewline(SubSeq(s, 1, Len(s) - 1))
    ELSE s

\* blocks[path]: line number -> [text, is_context_only], from the events of
\* one file that reach the loop over raw_events: a match event keeps an
\* earlier entry of its line, a context event replaces it
RECURSIVE PerFile(_, _)
PerFile(path, events) ==
    IF events = <<>> THEN <<>>
    ELSE LET ev      == events[Len(events)]
             before  == PerFile(path, SubSeq(events, 1, Len(events) - 1))
             text    == IF ev.text = None THEN <<>> ELSE ValueOf(ev.text)
             entry   == [text |-> RStripNewline(text),
                         is_context_only |-> ev.kind = "context"]
         IN IF ~(JsonLineSurvives(StrOf(path)) /\ JsonLineSurvives(text)) THEN before
            ELSE IF ev.kind = "match" /\ ev.line \in DOMAIN before THEN before
            ELSE (ev.line :> entry) @@ before

\* open(abs_path, "r", encoding="utf-8", errors="ignore").readlines()
ReadLines(d, p) == SplitLines(UniversalNewlines(DecodeIgnore(FileBytes(d, p))), {10})

\* re.match(r"^\s{0,3}#{1,6}\s+\S", line)
IsHeaderLine(line) ==
    LET k == SkipSpace(line, 1)
        RECURSIVE SkipHash(_)
        SkipHash(i) == IF i <= Len(line) /\ line[i] = 35 THEN SkipHash(i + 1) ELSE i
        j == SkipHash(k)
    IN /\ k - 1 <= 3
       /\ j - k \in 1..6
       /\ j <= Len(line) /\ IsSpace(line[j])
       /\ SkipSpace(line, j) <= Len(line)

\* nearest_header(lines, start_index): [ok, section]; start_index counts
\* from 0, section is None or the stripped header line, ok = FALSE is the
\* IndexError of lines[start_index] beyond the end of the list
RECURSIVE nearest_header(_, _)
nearest_header(lines, start_index) ==
    IF start_index < 0 THEN [ok |-> TRUE, section |-> None]
    ELSE IF start_index >= Len(lines) THEN [ok |-> FALSE, section |-> None]
    ELSE IF IsHeaderLine(lines[start_index + 1])
         THEN [ok |-> TRUE, section |-> Some(Strip(lines[start_index + 1]))]
    ELSE nearest_header(lines, start_index - 1)

\* pat.sub(lambda m: f"**{m.group(0)}**", main_text) for a pattern that is
\* the literal lit: the non-overlapping occurrences, leftmost first
RECURSIVE Highlight(_, _, _)
Highlight(text, lit, case_sensitive) ==
    LET stars == <<42, 42>>
        same(a, b) == IF case_sensitive THEN a = b ELSE Lower(a) = Lower(b)
    IN IF lit = <<>>
       THEN IF text = <<>> THEN stars \o stars
            ELSE stars \o stars \o <<Head(text)>> \o Highlight(Tail(text), lit, case_sensitive)
       ELSE IF Len(text) < Len(lit) THEN text
       ELSE IF same(SubSeq(text, 1, Len(lit)), lit)
            THEN stars \o SubSeq(text, 1, Len(lit)) \o stars
                 \o Highlight(SubSeq(text, Len(lit) + 1, Len(text)), lit, case_sensitive)
       ELSE <<Head(text)>> \o Highlight(Tail(text), lit, case_sensitive)

\* the lines counted, not their bytes
RECURSIVE LineIndexes(_, _)
LineIndexes(chunks, byte_index) ==
    IF chunks = <<>> THEN <<>>
    ELSE <<byte_index>> \o LineIndexes(Tail(chunks), byte_index + 1)

\* Sandbox._build_line_offset_cache: the list of offsets, where the element
\* at (1-based) index k + 1 is the code's offsets[k]
RECURSIVE LineStarts(_, _)
LineStarts(chunks, byte_index) ==
    IF chunks = <<>> THEN <<>>
    ELSE <<byte_index>> \o LineStarts(Tail(chunks), byte_index + Len(Head(chunks)))

\* the offsets scanned again at every call
build_line_offset_cache_rescan(cache, d, path) ==
    LET starts == LineStarts(SplitLines(FileBytes(d, path), BytesLineBreaks), 0)
    IN (path :> (<<0>> \o (IF starts = <<>> THEN <<0>> ELSE starts))) @@ cache

\* the lines ended at "\n" only
build_line_offset_cache_lf(cache, d, path) ==
    IF path \in DOMAIN cache THEN cache
    ELSE LET starts == LineStarts(SplitLines(FileBytes(d, path), {10}), 0)
         IN cache @@ (path :> (<<0>> \o (IF starts = <<>> THEN <<0>> ELSE starts)))

build_line_offset_cache(cache, d, path) ==
    IF path \in DOMAIN cache THEN cache
    ELSE LET starts == LineStarts(SplitLines(FileBytes(d, path), BytesLineBreaks), 0)
         IN cache @@ (path :> (<<0>> \o (IF starts = <<>> THEN <<0>> ELSE starts)))

\* Sandbox.line_start_offset: [offset, cache]
line_start_offset(cache, d, path, line_number) ==
    LET built   == build_line_offset_cache(cache, d, path)
        offsets == built[path]
        n1 == IF line_number < 1 THEN 1 ELSE line_number
        n2 == IF n1 >= Len(offsets) THEN Len(offsets) - 1 ELSE n1
    IN [offset |-> offsets[n2 + 1], cache |-> built]

\* extract_year_from_path: re.search(r'/(\d{4})\.md$', path), else 9999
NoYear == 9999

extract_year_from_path(file) ==
    LET n == Len(file)
        digit(i) == file[i] - 48
    IN IF /\ n >= 8
          /\ file[n - 7] = 47
          /\ \A i \in (n - 6)..(n - 3) : file[i] \in 48..57
          /\ SubSeq(file, n - 2, n) = <<46, 109, 100>>
       THEN digit(n - 6) * 1000 + digit(n - 5) * 100 + digit(n - 4) * 10 + digit(n - 3)
       ELSE NoYear

\* matches.sort(key=extract_year_from_path, reverse=True): a stable sort
RECURSIVE SortByYear(_)
SortByYear(matches) ==
    IF matches = <<>> THEN <<>>
    ELSE LET years == { extract_year_from_path(matches[i].file) : i \in DOMAIN matches }
             top   == CHOOSE y \in years : \A z \in years : z <= y
             IsTop(m)  == extract_year_from_path(m.file) = top
             NotTop(m) == extract_year_from_path(m.file) # top
         IN SelectSeq(matches, IsTop) \o SortByYear(SelectSeq(matches, NotTop))

\* the whole list, whatever the limit
WholeList(s, n) == s

\* matches[:max_results]
FirstN(s, n) ==
    IF n >= 0 THEN SubSeq(s, 1, Min(n, Len(s)))
    ELSE SubSeq(s, 1, Max(0, Len(s) + n))

-----------------------------------------------------------------------------
(* Line search: the files searched *)

\* the entries directly inside directory dir
Children(d, dir) ==
    { SubSeq(q, 1, Len(dir) + 1) :
        q \in { e \in DOMAIN d : Len(e) > Len(dir) /\ IsRelativeTo(e, dir) } }

\* "*" in rel or "?" in rel
HasWildcard(rel) ==
    \E i \in DOMAIN rel.segs : \E j \in DOMAIN rel.segs[i] : rel.segs[i][j] \in {42, 63}

\* Path.glob(pattern) below dir for a relative pattern of literal, "*", "?"
\* and "**" components (trees without symbolic links)
RECURSIVE GlobFrom(_, _, _)
GlobFrom(d, dir, pat) ==
    IF pat = <<>> THEN {dir}
    ELSE IF Head(pat) = <<42, 42>>
         THEN UNION { GlobFrom(d, sub, Tail(pat)) :
                        sub \in {dir} \cup { p \in RGlob(d, dir) : IsRealDir(d, p) } }
    ELSE UNION { GlobFrom(d, c, Tail(pat)) :
                   c \in { x \in Children(d, dir) : fnmatchcase(x[Len(x)], Head(pat)) } }

\* the allowed-extension files that rglob("*") finds below base
AllowedFilesBelow(base) ==
    { p \in RGlob(disk, base) : IsFile(disk, p) /\ HasAllowedExtension(p) }

\* the files one entry of file_list adds to search_files: [raise, files];
\* raise is the NotImplementedError of Path.glob for an absolute pattern,
\* which the except clause does not catch
FilesOfEntry(rel) ==
    LET abs_p == resolve_inside(rel)
        no    == [raise |-> FALSE, files |-> {}]
    IN IF ~abs_p.ok THEN no
       ELSE IF IsFile(disk, abs_p.path) /\ HasAllowedExtension(abs_p.path)
            THEN [raise |-> FALSE, files |-> {abs_p.path}]
       ELSE IF IsDir(disk, abs_p.path)
            THEN [raise |-> FALSE, files |-> AllowedFilesBelow(abs_p.path)]
       ELSE IF ~rel.abs /\ rel.segs = <<DOT>>
            THEN [raise |-> FALSE, files |-> AllowedFilesBelow(root)]
       ELSE IF HasWildcard(rel)
            THEN IF rel.abs THEN [raise |-> TRUE, files |-> {}]
                 ELSE [raise |-> FALSE,
                       files |-> { p \in GlobFrom(disk, root, rel.segs) :
                                     IsFile(disk, p) /\ HasAllowedExtension(p) }]
       ELSE no

\* search_files, as a set (the matcher reports a file once per event line
\* however often it is named): [raise, files].  An absent and an empty
\* file_list are the whole corpus.
SearchFiles(file_list) ==
    IF file_list = <<>>
    THEN [raise |-> FALSE, files |-> AllowedFilesBelow(root)]
    ELSE [raise |-> \E i \in DOMAIN file_list : FilesOfEntry(file_list[i]).raise,
          files |-> UNION { FilesOfEntry(file_list[i]).files : i \in DOMAIN file_list }]

-----------------------------------------------------------------------------
(* Line search: search_rg *)

\* context_rows of the match on line ln: the lines start..end that an event
\* or the cached file read has a text for
RECURSIVE ContextRows(_, _, _, _)
ContextRows(per_file, lines_cache, j, end) ==
    IF j > end THEN <<>>
    ELSE (IF j \in DOMAIN per_file
          THEN <<[line |-> j, text |-> per_file[j].text]>>
          ELSE IF j - 1 < Len(lines_cache)
               THEN <<[line |-> j, text |-> RStripNewline(lines_cache[j])]>>
          ELSE <<>>)
         \o ContextRows(per_file, lines_cache, j + 1, end)

\* one entry of matches: the match on line ln of a file, given the section
\* found for it and the byte offset at of the start of line ln
MatchEntry(ln, section, at, file, call) ==
    LET main_text == file.per_file[ln].text IN
    [file       |-> file.rel_path,
     line       |-> ln,
     text       |-> Highlight(main_text, call.query, call.case_sensitive),
     context    |-> ContextRows(file.per_file, file.lines_cache,
                                Max(1, ln - call.context_lines),
                                ln + call.context_lines),
     section    |-> section,
     byte_range |-> <<at, at + Len(Encode(main_text))>>]

\* the loop over match_lines of one file; st is [matches, abs_path, cache,
\* error], call holds the arguments of search_rg, file what the loop over
\* blocks computed for the file
RECURSIVE MatchLoop(_, _, _, _)
MatchLoop(st, todo, file, call) ==
    IF todo = {} \/ st.error # None THEN st
    ELSE
    LET ln        == CHOOSE n \in todo : \A m \in todo : n <= m
        abs_path  == IF file.resolved.ok THEN Some(file.resolved.path) ELSE st.abs_path
        fail(e)   == [st EXCEPT !.error = Some(e), !.abs_path = abs_path]
    IN
    Let(IF file.lines_cache # <<>> THEN nearest_header(file.lines_cache, ln - 2)
        ELSE [ok |-> TRUE, section |-> None],
        LAMBDA section :
    IF ~section.ok THEN fail("IndexError")
    ELSE IF abs_path = None THEN fail("UnboundLocalError")
    ELSE IF /\ ValueOf(abs_path) \notin DOMAIN st.cache
            /\ ~IsFile(disk, ValueOf(abs_path))
         THEN fail("FileNotFoundError")
    ELSE
    Let(line_start_offset(st.cache, disk, ValueOf(abs_path), ln),
        LAMBDA at :
    Let([matches  |-> Append(st.matches,
                             MatchEntry(ln, section.section, at.offset, file, call)),
         abs_path |-> abs_path,
         cache    |-> at.cache,
         error    |-> None],
        LAMBDA st2 :
    IF Len(st2.matches) >= call.max_results THEN st2
    ELSE MatchLoop(st2, todo \ {ln}, file, call))))

\* the events of one searched file, for regex = False
FileEvents(path, call) ==
    RgEvents(FileBytes(disk, path), SearchAlternatives(call.query),
             call.case_sensitive, call.max_results, call.context_lines, rg_path)

\* the loop over blocks.items(): paths is the order in which the matcher
\* reported the files
\* what the loop over blocks computes for one file before it goes through
\* its matches
BlockOf(path, call) ==
    LET resolved == resolve_inside([abs |-> TRUE, segs |-> path])
        rel      == RelativeTo(resolved.path, root)
    IN [per_file    |-> PerFile(path, FileEvents(path, call)),
        resolved    |-> resolved,
        lines_cache |-> IF resolved.ok /\ IsFile(disk, resolved.path)
                        THEN ReadLines(disk, resolved.path) ELSE <<>>,
        rel_path    |-> IF resolved.ok /\ rel.ok THEN AsPosix(rel.rel)
                        ELSE StrOf(path)]

RECURSIVE BlocksLoop(_, _, _)
BlocksLoop(st, paths, call) ==
    IF paths = <<>> \/ st.error # None THEN st
    ELSE
    Let(BlockOf(Head(paths), call),
        LAMBDA file :
    IF DOMAIN file.per_file = {} THEN BlocksLoop(st, Tail(paths), call)
    ELSE Let(MatchLoop(st,
                       { n \in DOMAIN file.per_file :
                           ~file.per_file[n].is_context_only },
                       file, call),
             LAMBDA st2 : BlocksLoop(st2, Tail(paths), call)))

\* the matcher started without looking for it first: a missing program fails
\* the call
search_rg_unguarded(query, file_list, max_results, context_lines, case_sensitive, order) ==
    [response |-> IF rg_path = RgAbsent THEN Raise("FileNotFoundError", {})
                  ELSE Return([matches |-> <<>>], {}),
     cache    |-> line_offset_cache]

\* search_rg(query, file_list, max_results, context_lines, regex = False,
\* case_sensitive): [response, cache].  order is the order in which the
\* matcher, which searches the files in parallel, reported the files that
\* have events.  The query holds no character that is special in a regex,
\* so that the pattern compiled for the highlight matches it literally.
search_rg(query, file_list, max_results, context_lines, case_sensitive, order) ==
    LET mr    == IF max_results = None THEN SearchMaxResults ELSE ValueOf(max_results)
        cl    == IF context_lines = None THEN SearchContextLines ELSE ValueOf(context_lines)
        found == SearchFiles(file_list)
        keep(r) == [response |-> r, cache |-> line_offset_cache]
    IN
    IF rg_path = RgAbsent
    THEN keep(Return([error |-> "ripgrep (rg) not found on PATH", matches |-> <<>>], {}))
    ELSE IF found.raise THEN keep(Raise("NotImplementedError", {}))
    ELSE IF found.files = {} THEN keep(Return([matches |-> <<>>], {}))
    ELSE IF mr < 0 \/ cl < 0
         THEN keep(Return([error |-> "ripgrep error", matches |-> <<>>], {}))
    ELSE
    Let(BlocksLoop([matches |-> <<>>, abs_path |-> None,
                    cache |-> line_offset_cache, error |-> None],
                   order,
                   [query |-> query, case_sensitive |-> case_sensitive,
                    context_lines |-> cl, max_results |-> mr]),
        LAMBDA st :
    [response |-> IF st.error # None THEN Raise(ValueOf(st.error), found.files)
                  ELSE Return([matches |-> FirstN(SortByYear(st.matches), mr)],
                              found.files),
     cache    |-> st.cache])

-----------------------------------------------------------------------------
(* Corpus of the path specification *)

PathsDisk ==
    LET f(bytes) == [kind |-> "file", bytes |-> bytes] IN
    ( <<SegEtc, SegPasswd>>           :> f(<<114, 111, 111, 116>>) ) @@
    ( <<SegData, SegCorpus, SegXmd>>  :> f(<<66, 71, 66>>) ) @@
    ( <<SegData, SegOther, SegXmd>>   :> f(<<111, 116, 104, 101, 114>>) ) @@
    ( <<SegData, SegCorpus, SegLink>> :> [kind |-> "link", target |-> <<SegEtc>>] )

PathsRoots == { <<>>, <<SegEtc>>, <<SegData, SegCorpus>> }

PathSegments == { DOTDOT, SegEtc, SegPasswd, SegOther, SegXmd, SegLink }

RelPaths == { [abs |-> a, segs |-> s] :
                a \in BOOLEAN, s \in SeqsUpTo(PathSegments, MaxRelLen) }

-----------------------------------------------------------------------------
(* Actions *)

CallResolveInside(rel) ==
    /\ request' = [op |-> "resolve_inside", relative_path |-> rel]
    /\ response' = LET r == resolve_inside(rel) IN
                   IF r.ok THEN Return(r.path, {})
                   ELSE Raise("PermissionError", {})
    /\ UNCHANGED <<root, disk, line_offset_cache, rg_path>>

CallListPaths(subdir) ==
    /\ request' = [op |-> "list_paths", subdir |-> subdir]
    /\ response' = list_paths(subdir)
    /\ UNCHANGED <<root, disk, line_offset_cache, rg_path>>

CallReadFileRange(path, start, end, context, max_lines) ==
    /\ request' = [op |-> "read_file_range", path |-> path, start |-> start,
                   end |-> end, context |-> context, max_lines |-> max_lines]
    /\ response' = read_file_range(path, start, end, context, max_lines)
    /\ UNCHANGED <<root, disk, line_offset_cache, rg_path>>

\* the agent asks for lines around line_number
DispatchReadLines(path, line_number, context_lines, max_lines) ==
    /\ request' = [op |-> "dispatch_read_file_range", mode |-> "line", path |-> path,
                   line_number |-> line_number, context_lines |-> context_lines,
                   max_lines |-> max_lines]
    /\ response' = dispatch_read_file_range(path, None, None, None, max_lines,
                                            Some(line_number), context_lines)
    /\ UNCHANGED <<root, disk, line_offset_cache, rg_path>>

\* the agent asks for a byte range
DispatchReadBytes(path, start, end, context, max_lines) ==
    /\ request' = [op |-> "dispatch_read_file_range", mode |-> "byte", path |-> path,
                   start |-> start, end |-> end, context |-> context,
                   max_lines |-> max_lines]
    /\ response' = dispatch_read_file_range(path, start, end, context, max_lines,
                                            None, None)
    /\ UNCHANGED <<root, disk, line_offset_cache, rg_path>>

-----------------------------------------------------------------------------
(* Specification of the sandbox: every root, every relative path *)

InitPaths ==
    /\ root \in PathsRoots
    /\ disk = PathsDisk
    /\ line_offset_cache = <<>>
    /\ rg_path = RgAbsent
    /\ request = NoRequest
    /\ response = NoResponse

\* one call is served per run: the operations keep no state between calls
\* but the line-offset cache, which these operations do not use
NextPaths ==
    /\ request = NoRequest
    /\ \E rel \in RelPaths :
           \/ CallResolveInside(rel)
           \/ CallListPaths(rel)
           \/ CallReadFileRange(rel, 0, 0, None, Some(DefaultMaxLines))

SpecPaths == InitPaths /\ [][NextPaths]_vars

-----------------------------------------------------------------------------
(* Specification of the range reader: every file content, every range *)

SegFmd    == <<102, 46, 109, 100>>                                   \* "f.md"
SegSecret == <<115, 101, 99, 114, 101, 116, 46, 106, 115, 111, 110>> \* "secret.json"

ReadRoot == <<SegData, SegCorpus>>

\* "a", "\n", and the two bytes of "ü" (0xC3 0xBC), which are also the two
\* kinds of byte that are invalid on their own
ReadByteValues == {97, 10, 195, 188}

ReadDisk(content) ==
    ( (ReadRoot \o <<SegFmd>>)    :> [kind |-> "file", bytes |-> content] ) @@
    ( (ReadRoot \o <<SegSecret>>) :> [kind |-> "file", bytes |-> <<107, 101, 121>>] )

ReadPaths == { [abs |-> FALSE, segs |-> <<SegFmd>>],
               [abs |-> FALSE, segs |-> <<SegSecret>>] }

ReadOffsets == (0 - 2)..(MaxFileLen + 2)

InitRead ==
    /\ root = ReadRoot
    /\ disk \in { ReadDisk(c) : c \in SeqsUpTo(ReadByteValues, MaxFileLen) }
    /\ line_offset_cache = <<>>
    /\ rg_path = RgAbsent
    /\ request = NoRequest
    /\ response = NoResponse

NextRead ==
    /\ request = NoRequest
    /\ \/ \E path \in ReadPaths, start \in ReadOffsets, end \in ReadOffsets,
            context \in {None, Some(0), Some(1)},
            max_lines \in {None, Some(0), Some(1), Some(2)} :
               CallReadFileRange(path, start, end, context, max_lines)
       \/ \E path \in ReadPaths, line_number \in 1..2,
            context_lines \in {None, Some(1)}, max_lines \in {None, Some(1)} :
               DispatchReadLines(path, line_number, context_lines, max_lines)
       \/ \E path \in ReadPaths, start \in {Some(0), Some(1)}, end \in {Some(1), Some(2)},
            context \in {None, Some(0), Some(1)}, max_lines \in {None, Some(1)} :
               DispatchReadBytes(path, start, end, context, max_lines)
       \/ \E subdir \in { [abs |-> FALSE, segs |-> <<DOT>>] } \cup ReadPaths :
               CallListPaths(subdir)

SpecRead == InitRead /\ [][NextRead]_vars

-----------------------------------------------------------------------------
(* Specification of the query compiler: every query of the grammar          *)
(*   expr := term (OR term)*, term := factor (AND factor)*,                 *)
(*   factor := '(' expr ')' | TERM                                          *)
(* up to MaxQueryOps operators and parenthesis pairs, and the example query *)

\* single-token terms "a", "b", "c"
Vocabulary == { <<97>>, <<98>>, <<99>> }

TermFactor(w)  == [kind |-> "term",  term |-> w,    inner |-> <<>>]
ParenFactor(e) == [kind |-> "paren", term |-> <<>>, inner |-> e]

\* the expressions / terms / factors that are written with exactly n tokens:
\* an expression is a sequence of terms, a term a sequence of factors
RECURSIVE ExprsOfSize(_)
RECURSIVE TermsOfSize(_)
RECURSIVE FactorsOfSize(_)

FactorsOfSize(n) ==
    IF n = 1 THEN { TermFactor(w) : w \in Vocabulary }
    ELSE IF n >= 3 THEN { ParenFactor(e) : e \in ExprsOfSize(n - 2) }
    ELSE {}

TermsOfSize(n) ==
    { <<f>> : f \in FactorsOfSize(n) }
    \cup UNION { { <<f>> \o t : f \in FactorsOfSize(k), t \in TermsOfSize(n - k - 1) } :
                 k \in 1..(n - 2) }

ExprsOfSize(n) ==
    { <<t>> : t \in TermsOfSize(n) }
    \cup UNION { { <<t>> \o e : t \in TermsOfSize(k), e \in ExprsOfSize(n - k - 1) } :
                 k \in 1..(n - 2) }

GrammarExprs == UNION { ExprsOfSize(n) : n \in 1..(2 * MaxQueryOps + 1) }

\* the tokens an expression is written with
RECURSIVE ExprTokens(_)
RECURSIVE TermTokens(_)
FactorTokens(f) ==
    IF f.kind = "term" THEN <<f.term>>
    ELSE <<LPAREN>> \o ExprTokens(f.inner) \o <<RPAREN>>

TermTokens(t) ==
    IF Len(t) = 1 THEN FactorTokens(t[1])
    ELSE FactorTokens(t[1]) \o <<OpAND>> \o TermTokens(Tail(t))

ExprTokens(e) ==
    IF Len(e) = 1 THEN TermTokens(e[1])
    ELSE TermTokens(e[1]) \o <<OpOR>> \o ExprTokens(Tail(e))

\* the query string: tokens separated by one space; when tight, no space is
\* written next to a parenthesis
RECURSIVE Render(_, _)
Render(tokens, tight) ==
    IF tokens = <<>> THEN <<>>
    ELSE IF Len(tokens) = 1 THEN tokens[1]
    ELSE LET glue == IF tight /\ (tokens[1] \in {LPAREN, RPAREN}
                                  \/ tokens[2] \in {LPAREN, RPAREN})
                     THEN <<>> ELSE SPACE
         IN tokens[1] \o glue \o Render(Tail(tokens), tight)

\* truth of an expression on a set S of terms, AND binding tighter than OR
RECURSIVE EvalExpr(_, _)
EvalFactor(f, S) ==
    IF f.kind = "term" THEN f.term \in S ELSE EvalExpr(f.inner, S)

EvalTerm(t, S) == \A j \in 1..Len(t) : EvalFactor(t[j], S)

EvalExpr(e, S) == \E i \in 1..Len(e) : EvalTerm(e[i], S)

TermBGB          == <<66, 71, 66>>
TermBuergerliches == <<66, 252, 114, 103, 101, 114, 108, 105, 99, 104, 101, 115>>
TermGesetzbuch   == <<71, 101, 115, 101, 116, 122, 98, 117, 99, 104>>
TermKuendigung   == <<75, 252, 110, 100, 105, 103, 117, 110, 103>>

\* "(BGB OR Bürgerliches Gesetzbuch) AND Kündigung"
ExampleQuery ==
    LPAREN \o TermBGB \o SPACE \o OpOR \o SPACE \o TermBuergerliches \o SPACE
           \o TermGesetzbuch \o RPAREN \o SPACE \o OpAND \o SPACE \o TermKuendigung

CallParse(query, expr) ==
    /\ request' = [op |-> "parse_to_dnf", query |-> query, expr |-> expr]
    /\ response' = Return(parse_boolean_query_to_dnf(query), {})
    /\ UNCHANGED <<root, disk, line_offset_cache, rg_path>>

InitParse ==
    /\ root = <<>>
    /\ disk = <<>>
    /\ line_offset_cache = <<>>
    /\ rg_path = RgAbsent
    /\ request = NoRequest
    /\ response = NoResponse

NextParse ==
    /\ request = NoRequest
    /\ \/ \E e \in GrammarExprs, tight \in BOOLEAN :
             CallParse(Render(ExprTokens(e), tight), e)
       \/ CallParse(ExampleQuery, <<>>)

SpecParse == InitParse /\ [][NextParse]_vars

-----------------------------------------------------------------------------
(* Specification of the query compiler call by call: every query of up to   *)
(* MaxDescentTokens tokens, well formed or not, and queries that open       *)
(* MaxNesting - 1 and MaxNesting parentheses                                *)

\* most tokens of a generated query
MaxDescentTokens == 4

\* most parentheses a query opens
MaxNesting == 331

\* "a", "b", "AND", "or", "(", ")"
DescentTokens == { <<97>>, <<98>>, OpAND, <<111, 114>>, LPAREN, RPAREN }

DescentQueries ==
    { Render(ts, FALSE) : ts \in SeqsUpTo(DescentTokens, MaxDescentTokens) }
    \cup { [i \in 1..n |-> 40] : n \in {MaxNesting - 1, MaxNesting} }

\* _parse_boolean_query_to_dnf(query) is called: token_re.findall starts
CallParseByFrames(query) ==
    /\ request = NoRequest
    /\ request' = [op |-> "parse_to_dnf", query |-> query]
    /\ response' = [status |-> "scanning", next |-> 1, raw_tokens |-> <<>>]
    /\ UNCHANGED <<root, disk, line_offset_cache, rg_path>>

\* findall looks for the next token
ScanToken ==
    /\ response.status = "scanning"
    /\ response.next <= Len(request.query)
    /\ response' = [response EXCEPT
                      !.next = TokenAt(request.query, response.next).next,
                      !.raw_tokens = @ \o TokenAt(request.query, response.next).toks]
    /\ UNCHANGED <<root, disk, line_offset_cache, rg_path, request>>

\* findall is done: no token returns (False, []), otherwise parse_expr()
\* is called
EndOfScan ==
    /\ response.status = "scanning"
    /\ response.next > Len(request.query)
    /\ response' = IF response.raw_tokens = <<>>
                   THEN Return([used_boolean |-> FALSE, dnf |-> <<>>], {})
                   ELSE [status |-> "parsing", m |-> EnterCompiler(response.raw_tokens)]
    /\ UNCHANGED <<root, disk, line_offset_cache, rg_path, request>>

\* the running frame goes on to its next call or its return
RunFrame(fn, m2) ==
    /\ response.status = "parsing"
    /\ response.m.error = None
    /\ response.m.stack # <<>>
    /\ response.m.stack[Len(response.m.stack)].fn = fn
    /\ response' = [response EXCEPT !.m = m2]
    /\ UNCHANGED <<root, disk, line_offset_cache, rg_path, request>>

RunParseExpr == RunFrame("parse_expr", parse_expr_frame(response.m))

RunParseTerm == RunFrame("parse_term", parse_term_frame(response.m))

RunParseFactor == RunFrame("parse_factor", parse_factor_frame(response.m))

\* parse_expr() has returned to _parse_boolean_query_to_dnf, which returns
\* its pair; or the RecursionError leaves it
EndOfCompiler ==
    /\ response.status = "parsing"
    /\ response.m.error # None \/ response.m.stack = <<>>
    /\ response' = IF response.m.error # None
                   THEN Raise(ValueOf(response.m.error), {})
                   ELSE Return(LeaveCompiler(response.m), {})
    /\ UNCHANGED <<root, disk, line_offset_cache, rg_path, request>>

NextDescent ==
    \/ \E query \in DescentQueries : CallParseByFrames(query)
    \/ ScanToken
    \/ EndOfScan
    \/ RunParseExpr
    \/ RunParseTerm
    \/ RunParseFactor
    \/ EndOfCompiler

\* the interpreter runs the call to its end
SpecDescent == InitParse /\ [][NextDescent]_vars /\ WF_vars(NextDescent)

-----------------------------------------------------------------------------
(* Specification of the whole-file search: a corpus of three allowed files  *)
(* with every combination of contents, and one file of another format      *)

SegGesetze == <<103, 101, 115, 101, 116, 122, 101>>          \* "gesetze"
SegUrteile == <<117, 114, 116, 101, 105, 108, 101>>          \* "urteile"
SegBgbMd   == <<98, 103, 98, 46, 109, 100>>                  \* "bgb.md"
SegNotes   == <<110, 111, 116, 101, 115, 46, 116, 120, 116>> \* "notes.txt"
SegXjson   == <<120, 46, 106, 115, 111, 110>>                \* "x.json"
Seg2021    == <<50, 48, 50, 49, 46, 109, 100>>               \* "2021.md"

WordVor  == <<118, 111, 114>>                                \* "vor"
WordLand == <<76, 97, 110, 100>>                             \* "Land"
WordBgb  == <<98, 103, 98>>                                  \* "bgb"
WordKUENDIGUNG == <<75, 220, 78, 68, 73, 71, 85, 78, 71>>    \* "KÜNDIGUNG"

\* "BGB Kündigung", "BGB vor Land", "kündigung", and the empty file
SearchTexts ==
    { TermBGB \o SPACE \o TermKuendigung,
      TermBGB \o SPACE \o WordVor \o SPACE \o WordLand,
      Lower(TermKuendigung),
      <<>> }

SearchRoot == <<SegData, SegCorpus>>

\* the files in directory-scan order: notes.txt, gesetze/bgb.md,
\* gesetze/x.json, urteile/2021.md
SearchDisk(t1, t2, t3) ==
    LET f(text, rank) == [kind |-> "file", bytes |-> Encode(text), rank |-> rank] IN
    ( (SearchRoot \o <<SegNotes>>)             :> f(t1, 1) ) @@
    ( (SearchRoot \o <<SegGesetze, SegBgbMd>>) :> f(t2, 2) ) @@
    ( (SearchRoot \o <<SegGesetze, SegXjson>>) :> f(TermBGB \o SPACE \o TermKuendigung, 3) ) @@
    ( (SearchRoot \o <<SegUrteile, Seg2021>>)  :> f(t3, 4) )

QueryBgbAndKuendigung == TermBGB \o SPACE \o OpAND \o SPACE \o TermKuendigung

\* queries written with AND / OR / parentheses, one of them with adjacent
\* terms and two malformed so that their DNF is empty, and two plain queries
FileSearchQueries ==
    { QueryBgbAndKuendigung,
      TermBGB \o SPACE \o OpOR \o SPACE \o TermKuendigung,
      LPAREN \o WordBgb \o SPACE \o OpOR \o SPACE \o WordLand \o RPAREN
             \o SPACE \o OpAND \o SPACE \o WordKUENDIGUNG,
      ExampleQuery,
      TermBGB \o SPACE \o OpAND,
      OpAND,
      OpOR \o SPACE \o TermBGB,
      TermBGB \o SPACE \o TermKuendigung,
      TermBGB }

\* "*.md", "**/*.md", "*"
FileSearchGlobs ==
    { None, Some(<<42, 46, 109, 100>>), Some(<<42, 42, 47, 42, 46, 109, 100>>),
      Some(<<42>>) }

CallFileSearch(query, glob, case_sensitive, max_results) ==
    /\ request' = [op |-> "file_search", query |-> query, glob |-> glob,
                   case_sensitive |-> case_sensitive, max_results |-> max_results]
    /\ response' = file_search(query, glob, case_sensitive, max_results)
    /\ UNCHANGED <<root, disk, line_offset_cache, rg_path>>

InitFileSearch ==
    /\ root = SearchRoot
    /\ disk \in { SearchDisk(t1, t2, t3) : t1 \in SearchTexts, t2 \in SearchTexts,
                                           t3 \in SearchTexts }
    /\ line_offset_cache = <<>>
    /\ rg_path = RgAbsent
    /\ request = NoRequest
    /\ response = NoResponse

NextFileSearch ==
    /\ request = NoRequest
    /\ \E query \in {None} \cup { Some(q) : q \in FileSearchQueries },
          glob \in FileSearchGlobs,
          case_sensitive \in BOOLEAN,
          max_results \in {None} \cup { Some(n) : n \in 0..MaxFileCap } :
             CallFileSearch(query, glob, case_sensitive, max_results)

SpecFileSearch == InitFileSearch /\ [][NextFileSearch]_vars

-----------------------------------------------------------------------------
(* Specification of the line search: a statute file of every content made   *)
(* of a few kinds of line, two decision files named by year, every matcher  *)

\* most lines of the generated statute file
MaxSearchLines == 2

\* largest max_results and context_lines given to search_rg
MaxSearchCap == 1
MaxSearchContext == 0

Seg2022 == <<50, 48, 50, 50, 46, 109, 100>>                    \* "2022.md"
SegStarMd == <<42, 46, 109, 100>>                              \* "*.md"

WordA == <<97>>                                                \* "a"
WordB == <<98>>                                                \* "b"
WordUe == <<252>>                                              \* "ü"

\* "§ 573 Kündigung durch den Vermieter"
LineParagraph573 ==
    <<167, 32, 53, 55, 51, 32>> \o TermKuendigung
    \o <<32, 100, 117, 114, 99, 104, 32, 100, 101, 110, 32,
         86, 101, 114, 109, 105, 101, 116, 101, 114>>

\* the kinds of line, as bytes: "# A\n" (a header), "b\n", "ü a\r\n" and
\* "a\r" (which the matcher does not end a line at)
SearchLineKinds ==
    { <<35, 32, 65, 10>>, <<98, 10>>, <<195, 188, 32, 97, 13, 10>>, <<97, 13>> }

RECURSIVE Concat(_)
Concat(seqs) == IF seqs = <<>> THEN <<>> ELSE Head(seqs) \o Concat(Tail(seqs))

\* "# A\n", "b\n" and then, on line 3, "§ 573 Kündigung durch den Vermieter\n"
Paragraph573File ==
    <<35, 32, 65, 10, 98, 10>> \o Encode(LineParagraph573) \o <<10>>

\* "a\rb\n", "# A\n", "a\n": three lines for the matcher, the first of them
\* two lines for a reader that ends lines at "\r" too
BareReturnFile == <<97, 13, 98, 10, 35, 32, 65, 10, 97, 10>>

SearchContents ==
    { Concat(ls) : ls \in SeqsUpTo(SearchLineKinds, MaxSearchLines) }
    \cup { Paragraph573File, BareReturnFile }

\* gesetze/bgb.md (generated), gesetze/x.json, urteile/2021.md, urteile/2022.md
LineSearchDisk(content) ==
    LET f(bytes) == [kind |-> "file", bytes |-> bytes] IN
    ( (SearchRoot \o <<SegGesetze, SegBgbMd>>) :> f(content) ) @@
    ( (SearchRoot \o <<SegGesetze, SegXjson>>) :> f(<<97, 10>>) ) @@
    ( (SearchRoot \o <<SegUrteile, Seg2021>>)  :> f(<<97, 10, 98, 10>>) ) @@
    ( (SearchRoot \o <<SegUrteile, Seg2022>>)  :> f(<<35, 32, 98, 10, 10, 65, 10>>) )

\* the statute file with § 573, and the decisions of 2021 directly under the
\* root: 2021.md, gesetze/bgb.md, gesetze/x.json, urteile/2022.md
YearAtRootDisk ==
    LET f(bytes) == [kind |-> "file", bytes |-> bytes] IN
    ( (SearchRoot \o <<Seg2021>>)             :> f(<<97, 10, 98, 10>>) ) @@
    ( (SearchRoot \o <<SegGesetze, SegBgbMd>>) :> f(Paragraph573File) ) @@
    ( (SearchRoot \o <<SegGesetze, SegXjson>>) :> f(<<97, 10>>) ) @@
    ( (SearchRoot \o <<SegUrteile, Seg2022>>)  :> f(<<35, 32, 98, 10, 10, 65, 10>>) )

\* "a", "ü", "Kündigung", "b OR a"
LineSearchQueries ==
    { WordA, WordUe, TermKuendigung, WordB \o SPACE \o OpOR \o SPACE \o WordA }

\* no file_list, ["gesetze"], ["urteile/*.md", "../etc"], ["../etc"] and
\* ["/data/corpus/*.md", "urteile"]
LineSearchFileLists ==
    { <<>>,
      << [abs |-> FALSE, segs |-> <<SegGesetze>>] >>,
      << [abs |-> FALSE, segs |-> <<SegUrteile, SegStarMd>>],
         [abs |-> FALSE, segs |-> <<DOTDOT, SegEtc>>] >>,
      << [abs |-> FALSE, segs |-> <<DOTDOT, SegEtc>>] >>,
      << [abs |-> TRUE, segs |-> SearchRoot \o <<SegStarMd>>],
         [abs |-> FALSE, segs |-> <<SegUrteile>>] >> }

\* the characters the re module gives a meaning to
RegexSpecial == {36, 40, 41, 42, 43, 46, 63, 91, 92, 93, 94, 123, 124, 125}

IsPlainText(query) == \A i \in DOMAIN query : query[i] \notin RegexSpecial

\* every order of the elements of a set
Orderings(S) ==
    { f \in [1..Cardinality(S) -> S] :
        \A i, j \in 1..Cardinality(S) : f[i] = f[j] => i = j }

\* the files the matcher has events for
ReportedFiles(query, file_list, max_results, context_lines, case_sensitive) ==
    IF \/ rg_path = RgAbsent
       \/ SearchFiles(file_list).raise
       \/ max_results # None /\ ValueOf(max_results) < 0
       \/ context_lines # None /\ ValueOf(context_lines) < 0
    THEN {}
    ELSE LET call == [query |-> query, case_sensitive |-> case_sensitive,
                      context_lines |-> IF context_lines = None THEN SearchContextLines
                                        ELSE ValueOf(context_lines),
                      max_results |-> IF max_results = None THEN SearchMaxResults
                                      ELSE ValueOf(max_results)]
         IN { p \in SearchFiles(file_list).files : FileEvents(p, call) # <<>> }

CallSearchRg(query, file_list, max_results, context_lines, case_sensitive, order) ==
    LET out == search_rg(query, file_list, max_results, context_lines,
                         case_sensitive, order)
    IN /\ IsPlainText(query)
       /\ request' = [op |-> "search_rg", query |-> query, file_list |-> file_list,
                      max_results |-> max_results, context_lines |-> context_lines,
                      regex |-> FALSE, case_sensitive |-> case_sensitive,
                      order |-> order]
       /\ response' = out.response
       /\ line_offset_cache' = out.cache
       /\ UNCHANGED <<root, disk, rg_path>>

InitSearch ==
    /\ root = SearchRoot
    /\ disk \in { LineSearchDisk(c) : c \in SearchContents } \cup { YearAtRootDisk }
    /\ line_offset_cache = <<>>
    /\ rg_path \in {RgAbsent, RgPrinterLimit, RgSearcherLimit}
    /\ request = NoRequest
    /\ response = NoResponse

NextSearch ==
    /\ request = NoRequest
    /\ \E query \in LineSearchQueries,
          file_list \in LineSearchFileLists,
          max_results \in {None} \cup { Some(n) : n \in 0..MaxSearchCap },
          context_lines \in {None} \cup { Some(n) : n \in 0..MaxSearchContext },
          case_sensitive \in BOOLEAN :
             \E order \in Orderings(ReportedFiles(query, file_list, max_results,
                                                  context_lines, case_sensitive)) :
                CallSearchRg(query, file_list, max_results, context_lines,
                             case_sensitive, order)

SpecSearch == InitSearch /\ [][NextSearch]_vars

-----------------------------------------------------------------------------
(* Specification of the tools with and without the matcher: each tool is    *)
(* called once; file_search and read_file_range are called again, with the  *)
(* same arguments, after the matcher was installed or removed               *)

\* gesetze/bgb.md (with § 573), gesetze/x.json, urteile/2021.md,
\* urteile/2022.md, in directory-scan order
MatcherDisk ==
    LET f(bytes, rank) == [kind |-> "file", bytes |-> bytes, rank |-> rank] IN
    ( (SearchRoot \o <<SegGesetze, SegBgbMd>>) :> f(Paragraph573File, 1) ) @@
    ( (SearchRoot \o <<SegGesetze, SegXjson>>) :> f(<<97, 10>>, 2) ) @@
    ( (SearchRoot \o <<SegUrteile, Seg2021>>)  :> f(<<97, 10, 98, 10>>, 3) ) @@
    ( (SearchRoot \o <<SegUrteile, Seg2022>>)  :> f(<<35, 32, 98, 10, 10, 65, 10>>, 4) )

\* the tool is called again with the arguments of the request, the matcher
\* being now as new says
RepeatCall(new) ==
    /\ request.op \in {"file_search", "read_file_range"}
    /\ new # rg_path
    /\ rg_path' = new
    /\ request' = request
    /\ response' = IF request.op = "file_search"
                   THEN file_search(request.query, request.glob,
                                    request.case_sensitive, request.max_results)
                   ELSE read_file_range(request.path, request.start, request.end,
                                        request.context, request.max_lines)
    /\ UNCHANGED <<root, disk, line_offset_cache>>

InitMatcher ==
    /\ root = SearchRoot
    /\ disk = MatcherDisk
    /\ line_offset_cache = <<>>
    /\ rg_path \in {RgAbsent, RgPrinterLimit, RgSearcherLimit}
    /\ request = NoRequest
    /\ response = NoResponse

NextMatcher ==
    \/ /\ request = NoRequest
       /\ \E query \in LineSearchQueries,
             file_list \in LineSearchFileLists,
             max_results \in {None, Some(0 - 1), Some(1)},
             context_lines \in {None, Some(0)},
             case_sensitive \in BOOLEAN :
                \E order \in Orderings(ReportedFiles(query, file_list, max_results,
                                                     context_lines, case_sensitive)) :
                   CallSearchRg(query, file_list, max_results, context_lines,
                                case_sensitive, order)
    \/ /\ request = NoRequest
       /\ \E query \in {None, Some(TermBGB), Some(QueryBgbAndKuendigung)},
             case_sensitive \in BOOLEAN,
             max_results \in {None, Some(1)} :
                CallFileSearch(query, None, case_sensitive, max_results)
    \/ /\ request = NoRequest
       /\ \E path \in { [abs |-> FALSE, segs |-> <<SegGesetze, SegBgbMd>>],
                         [abs |-> FALSE, segs |-> <<SegGesetze>>] },
             start \in {0, 6}, end \in {3, 43}, context \in {None, Some(0)} :
                CallReadFileRange(path, start, end, context, None)
    \/ \E new \in {RgAbsent, RgPrinterLimit, RgSearcherLimit} : RepeatCall(new)

SpecMatcher == InitMatcher /\ [][NextMatcher]_vars

-----------------------------------------------------------------------------
(* Specification of the line index: a file of every content of "a", "\n"    *)
(* and "\r"; the offset of a line is asked for, alone or to read from it,   *)
(* any number of times                                                      *)

\* longest file content (in bytes) of the line-index corpus
MaxLineFileLen == 4

LineByteValues == {97, 10, 13}

LineNumbers == (0 - 1)..(MaxLineFileLen + 2)

\* _sandbox.line_start_offset(abs_path, line_number)
CallLineStartOffset(path, line_number) ==
    LET out == line_start_offset(line_offset_cache, disk, path, line_number) IN
    /\ request' = [op |-> "line_start_offset", path |-> path,
                   line_number |-> line_number]
    /\ response' = Return(out.offset, {path})
    /\ line_offset_cache' = out.cache
    /\ UNCHANGED <<root, disk, rg_path>>

\* offset = line_start_offset(path, n), then
\* read_file_range(path, offset, offset, context=0)
LineStartThenRead(rel, line_number) ==
    LET out == line_start_offset(line_offset_cache, disk, root \o rel.segs,
                                 line_number)
    IN /\ request' = [op |-> "line_start_then_read", path |-> rel,
                      line_number |-> line_number, offset |-> out.offset]
       /\ response' = read_file_range(rel, out.offset, out.offset, Some(0),
                                      Some(DefaultMaxLines))
       /\ line_offset_cache' = out.cache
       /\ UNCHANGED <<root, disk, rg_path>>

InitLines ==
    /\ root = ReadRoot
    /\ disk \in { ReadDisk(c) : c \in SeqsUpTo(LineByteValues, MaxLineFileLen) }
    /\ line_offset_cache = <<>>
    /\ rg_path = RgAbsent
    /\ request = NoRequest
    /\ response = NoResponse

NextLines ==
    \/ \E line_number \in LineNumbers :
          CallLineStartOffset(ReadRoot \o <<SegFmd>>, line_number)
    \/ \E line_number \in LineNumbers :
          LineStartThenRead([abs |-> FALSE, segs |-> <<SegFmd>>], line_number)

SpecLines == InitLines /\ [][NextLines]_vars

-----------------------------------------------------------------------------
(* Specification of repeated calls: the four tools called again and again,  *)
(* in any order, against a corpus that does not change                      *)

\* gesetze/bgb.md ("a\nb\n"), gesetze/notes.txt ("a\n") and urteile/2022.md
\* ("# b\n\nA\n")
RepeatDisk ==
    LET f(bytes, rank) == [kind |-> "file", bytes |-> bytes, rank |-> rank] IN
    ( (SearchRoot \o <<SegGesetze, SegBgbMd>>) :> f(<<97, 10, 98, 10>>, 1) ) @@
    ( (SearchRoot \o <<SegGesetze, SegNotes>>) :> f(<<97, 10>>, 2) ) @@
    ( (SearchRoot \o <<SegUrteile, Seg2022>>)  :> f(<<35, 32, 98, 10, 10, 65, 10>>, 3) )

InitRepeat ==
    /\ root = SearchRoot
    /\ disk = RepeatDisk
    /\ line_offset_cache = <<>>
    /\ rg_path \in {RgPrinterLimit, RgSearcherLimit}
    /\ request = NoRequest
    /\ response = NoResponse

NextRepeat ==
    \/ \E query \in {WordA, WordB},
          file_list \in { <<>>, << [abs |-> FALSE, segs |-> <<SegUrteile>>] >> },
          max_results \in {None, Some(1)},
          case_sensitive \in BOOLEAN :
             \E order \in Orderings(ReportedFiles(query, file_list, max_results,
                                                  None, case_sensitive)) :
                CallSearchRg(query, file_list, max_results, None, case_sensitive, order)
    \/ \E query \in {None, Some(WordA), Some(WordB)}, max_results \in {None, Some(1)} :
          CallFileSearch(query, None, FALSE, max_results)
    \/ \E path \in { [abs |-> FALSE, segs |-> <<SegGesetze, SegBgbMd>>],
                      [abs |-> FALSE, segs |-> <<SegGesetze>>] },
          start \in {0, 2}, end \in {1, 4} :
             CallReadFileRange(path, start, end, Some(0), None)
    \/ \E path \in DOMAIN disk, line_number \in 0..4 :
          CallLineStartOffset(path, line_number)

SpecRepeat == InitRepeat /\ [][NextRepeat]_vars

-----------------------------------------------------------------------------
(* Specification of the line-offset cache over a corpus that changes: the   *)
(* tools are called in any order while files are rewritten on disk          *)

\* the contents a file is rewritten with: "a\n" and "b\na\n"
CacheContents == { <<97, 10>>, <<98, 10, 97, 10>> }

\* gesetze/bgb.md and urteile/2022.md
CacheDisk(c1, c2) ==
    LET f(bytes, rank) == [kind |-> "file", bytes |-> bytes, rank |-> rank] IN
    ( (SearchRoot \o <<SegGesetze, SegBgbMd>>) :> f(c1, 1) ) @@
    ( (SearchRoot \o <<SegUrteile, Seg2022>>)  :> f(c2, 2) )

\* somebody rewrites file path; the program is not told
FileChanges(path, bytes) ==
    /\ disk[path].bytes # bytes
    /\ disk' = [disk EXCEPT ![path].bytes = bytes]
    /\ request' = [op |-> "none", changed |-> path]
    /\ response' = NoResponse
    /\ UNCHANGED <<root, line_offset_cache, rg_path>>

InitCache ==
    /\ root = SearchRoot
    /\ disk \in { CacheDisk(c1, c2) : c1 \in CacheContents, c2 \in CacheContents }
    /\ line_offset_cache = <<>>
    /\ rg_path = RgSearcherLimit
    /\ request = NoRequest
    /\ response = NoResponse

NextCache ==
    \/ \E path \in DOMAIN disk, line_number \in 1..3 :
          CallLineStartOffset(path, line_number)
    \/ \E query \in {WordA, WordB},
          file_list \in { <<>>, << [abs |-> FALSE, segs |-> <<SegUrteile>>] >> } :
             \E order \in Orderings(ReportedFiles(query, file_list, None, None, TRUE)) :
                CallSearchRg(query, file_list, None, None, TRUE, order)
    \/ \E start \in {0, 2} :
          CallReadFileRange([abs |-> FALSE, segs |-> <<SegGesetze, SegBgbMd>>],
                            start, 4, Some(0), None)
    \/ \E path \in DOMAIN disk, bytes \in CacheContents : FileChanges(path, bytes)

SpecCache == InitCache /\ [][NextCache]_vars

-----------------------------------------------------------------------------
(* Specification of concurrent line_start_offset calls: NumThreads threads, *)
(* each in one call, interleaved at every statement that reads or writes    *)
(* the cache or extends the offset list; the file does not change.  In this *)
(* specification request[t] is the call of thread t and response[t] its     *)
(* frame: [pc, offsets, byte_index, chunks, result].                        *)

NumThreads == 2

\* most bytes of the file
MaxThreadFileLen == 2

Threads == 1..NumThreads

\* the list is in the cache from its creation on, while it is being built
CacheSharingList(cache, path, offsets, pc) == (path :> offsets) @@ cache

\* the cache after the statement at pc of _build_line_offset_cache has run
\* with the local list offsets: only the last statement of the build,
\* self._line_offset_cache[path] = offsets, writes it
CacheAfter(cache, path, offsets, pc) ==
    IF pc = "store" THEN (path :> offsets) @@ cache ELSE cache

\* thread t goes from pc to next, its frame and the cache changing as given
ThreadStep(t, pc, frame, cache) ==
    /\ response[t].pc = pc
    /\ response' = [response EXCEPT ![t] = frame]
    /\ line_offset_cache' = cache
    /\ UNCHANGED <<root, disk, rg_path, request>>

\* if path in self._line_offset_cache; on a miss offsets = [0], byte_index =
\* 0 and the file is read and split
CheckCache(t) ==
    LET path == request[t].path IN
    IF path \in DOMAIN line_offset_cache
    THEN ThreadStep(t, "call", [response[t] EXCEPT !.pc = "hit"], line_offset_cache)
    ELSE ThreadStep(t, "call",
                    [response[t] EXCEPT
                       !.pc = "append", !.offsets = <<0>>, !.byte_index = 0,
                       !.chunks = SplitLines(FileBytes(disk, path), BytesLineBreaks)],
                    CacheAfter(line_offset_cache, path, <<0>>, "call"))

\* return self._line_offset_cache[path]
ReadCached(t) ==
    ThreadStep(t, "hit",
               [response[t] EXCEPT !.pc = "clamp",
                                   !.offsets = line_offset_cache[request[t].path]],
               line_offset_cache)

\* offsets.append(byte_index); byte_index += len(chunk)
AppendOffset(t) ==
    LET f == response[t]
        offsets == Append(f.offsets, f.byte_index)
    IN /\ f.chunks # <<>>
       /\ ThreadStep(t, "append",
                     [f EXCEPT !.offsets = offsets,
                               !.byte_index = @ + Len(Head(f.chunks)),
                               !.chunks = Tail(@)],
                     CacheAfter(line_offset_cache, request[t].path, offsets, "append"))

\* the loop is over: if len(offsets) == 1: offsets.append(0); then
\* self._line_offset_cache[path] = offsets
StoreOffsets(t) ==
    LET f == response[t]
        offsets == IF Len(f.offsets) = 1 THEN Append(f.offsets, 0) ELSE f.offsets
    IN /\ f.chunks = <<>>
       /\ ThreadStep(t, "append",
                     [f EXCEPT !.pc = "clamp", !.offsets = offsets],
                     CacheAfter(line_offset_cache, request[t].path, offsets, "store"))

\* line_start_offset clamps line_number and returns offsets[line_number]
ReturnOffset(t) ==
    LET f  == response[t]
        n1 == IF request[t].line_number < 1 THEN 1 ELSE request[t].line_number
        n2 == IF n1 >= Len(f.offsets) THEN Len(f.offsets) - 1 ELSE n1
    IN ThreadStep(t, "clamp",
                  [f EXCEPT !.pc = "done", !.result = Some(f.offsets[n2 + 1])],
                  line_offset_cache)

InitThreads ==
    /\ root = ReadRoot
    /\ disk \in { ReadDisk(c) : c \in SeqsUpTo({97, 10}, MaxThreadFileLen) }
    /\ line_offset_cache = <<>>
    /\ rg_path = RgAbsent
    /\ request \in [Threads -> [path : DOMAIN ReadDisk(<<>>), line_number : {1, 3}]]
    /\ response = [t \in Threads |->
                     [pc |-> "call", offsets |-> <<>>, byte_index |-> 0,
                      chunks |-> <<>>, result |-> None]]

NextThreads ==
    \E t \in Threads :
        \/ CheckCache(t)
        \/ ReadCached(t)
        \/ AppendOffset(t)
        \/ StoreOffsets(t)
        \/ ReturnOffset(t)

SpecThreads == InitThreads /\ [][NextThreads]_vars

-----------------------------------------------------------------------------
(* The agent loop of the command-line client: run_agent.  response is the   *)
(* state of the run: [status, steps, requests, fallbacks, tool_calls,       *)
(* tool_messages, value], where tool_calls and tool_messages are the end of *)
(* the message list: the ids of the calls of the last assistant message     *)
(* appended, and the tool_call_id of the tool messages appended after it.   *)

\* max_steps
AgentMaxSteps == 100

\* most tool calls in one reply of the model
MaxToolCalls == 2

\* the calls a reply can hold: an id, and whether the dispatcher knows the
\* tool and whether the tool function then raises
ToolCallReplies ==
    { cs \in SeqsUpTo([id : {"call_1", "call_2"}, known : BOOLEAN, raises : BOOLEAN],
                      MaxToolCalls) :
        cs # <<>> /\ \A i \in DOMAIN cs : cs[i].raises => cs[i].known }

\* one pass of the loop with steps < max_steps has asked the model
AgentAsked == [response EXCEPT !.steps = @ + 1, !.requests = @ + 1]

\* one pass of the loop body
AgentStep(guard, next) ==
    /\ request.op = "run_agent"
    /\ response.status = "running"
    /\ guard
    /\ response' = next
    /\ UNCHANGED <<root, disk, line_offset_cache, rg_path, request>>

\* steps >= max_steps: one request without tools; its answer, or the text
\* about the exception of the request or of choices[0], is returned
FallbackAnswer(answered) ==
    AgentStep(response.steps >= AgentMaxSteps,
              [response EXCEPT
                 !.fallbacks = @ + 1, !.status = "ok",
                 !.value = IF answered THEN "fallback answer" ELSE "no fallback answer"])

\* client.chat.completions.create raises
CreateFails ==
    AgentStep(response.steps < AgentMaxSteps,
              [AgentAsked EXCEPT !.status = "ok", !.value = "LLM create failed"])

\* the reply has no choices: the loop goes on
EmptyChoices ==
    AgentStep(response.steps < AgentMaxSteps, AgentAsked)

\* the reply has tool_calls: the assistant message is appended, then one tool
\* message per call (the result, or the error of an unknown tool or of a
\* tool function that raised)
ToolCalls(calls) ==
    AgentStep(response.steps < AgentMaxSteps,
              [AgentAsked EXCEPT
                 !.tool_calls = [i \in DOMAIN calls |-> calls[i].id],
                 !.tool_messages = [i \in DOMAIN calls |-> calls[i].id]])

\* the reply has a function_call and no tool_calls: tool_calls becomes a
\* list of one dict, and tc.function of the dict raises AttributeError
FunctionCall ==
    AgentStep(response.steps < AgentMaxSteps,
              [AgentAsked EXCEPT !.status = "raise", !.value = "AttributeError"])

\* the reply has neither: "<final>" + content + "</final>" is returned
FinalAnswer ==
    AgentStep(response.steps < AgentMaxSteps,
              [AgentAsked EXCEPT !.status = "ok", !.value = "final"])

InitAgent ==
    /\ root = <<>>
    /\ disk = <<>>
    /\ line_offset_cache = <<>>
    /\ rg_path = RgAbsent
    /\ request = [op |-> "run_agent"]
    /\ response = [status |-> "running", steps |-> 0, requests |-> 0, fallbacks |-> 0,
                   tool_calls |-> <<>>, tool_messages |-> <<>>, value |-> ""]

NextAgent ==
    \/ \E answered \in BOOLEAN : FallbackAnswer(answered)
    \/ CreateFails
    \/ EmptyChoices
    \/ \E calls \in ToolCallReplies : ToolCalls(calls)
    \/ FunctionCall
    \/ FinalAnswer

\* the process runs the loop on
SpecAgent == InitAgent /\ [][NextAgent]_vars /\ WF_vars(NextAgent)

-----------------------------------------------------------------------------
(* The streamed agent loop of the web server: stream_agent_response.        *)
(* response is the state of the generator: [status, steps, last, outcome],  *)
(* where last is the event yielded last and outcome the final_answer, error *)
(* and complete events yielded so far, in order.  The reasoning event is    *)
(* yielded before the events of a tool call or of the final answer and is   *)
(* never the last of a pass; it is left out.                                *)

\* max_steps  (reduced for streaming)
StreamMaxSteps == 50

ErrLLM      == "error: LLM Fehler"
ErrCredits  == "error: Guthaben erschoepft"
ErrMaxSteps == "error: Maximale Anzahl Schritte erreicht"
ErrSystem   == "error: Systemfehler"

ErrorEvents == {ErrLLM, ErrCredits, ErrMaxSteps, ErrSystem}

OutcomeEvents == ErrorEvents \cup {"final_answer", "complete"}

\* resp.usage is absent, or present for an anonymous call, or present for a
\* user whose balance stays at or above zero
UsageReplies == {"none", "counted", "charged"}

UsageEvents(usage) ==
    CASE usage = "none"    -> <<>>
      [] usage = "counted" -> <<"token_usage">>
      [] usage = "charged" -> <<"token_usage", "credits">>

\* yield each of the events
Emit(r, events) ==
    IF events = <<>> THEN r
    ELSE [r EXCEPT !.last = events[Len(events)],
                   !.outcome = @ \o SelectSeq(events, LAMBDA e : e \in OutcomeEvents)]

\* return inside the try: finally closes the MCP client, nothing is yielded
StreamReturns(r) == [r EXCEPT !.status = "closed"]

\* after the try statement: the complete event
StreamCompletes(r) == [Emit(r, <<"complete">>) EXCEPT !.status = "closed"]

\* after the while loop: the max-steps error when steps >= max_steps
AfterLoop(r) ==
    StreamCompletes(IF r.steps >= StreamMaxSteps THEN Emit(r, <<ErrMaxSteps>>) ELSE r)

\* continue: the while condition is tested again
NextPass(r) == IF r.steps < StreamMaxSteps THEN r ELSE AfterLoop(r)

\* the top of a pass: the step event, steps += 1
StreamAsked == [Emit(response, <<"step">>) EXCEPT !.steps = @ + 1]

\* one pass of the loop body
StreamStep(next) ==
    /\ request.op = "stream_agent_response"
    /\ response.status = "open"
    /\ response' = next
    /\ UNCHANGED <<root, disk, line_offset_cache, rg_path, request>>

\* client.chat.completions.create raises: the LLM error, return
StreamCreateFails ==
    StreamStep(StreamReturns(Emit(StreamAsked, <<ErrLLM>>)))

\* the balance of the user goes below zero: the credits error, return
StreamCreditsExhausted ==
    StreamStep(StreamReturns(Emit(StreamAsked, <<"token_usage", "credits", ErrCredits>>)))

\* the reply has no choices: continue
StreamEmptyChoices(usage) ==
    StreamStep(NextPass(Emit(StreamAsked, UsageEvents(usage))))

\* the reply has tool_calls: a tool_thinking event per call, then the tool
\* events of each call (none for an unknown tool or a silent one); continue
StreamToolCalls(usage, tool_events) ==
    StreamStep(NextPass(Emit(StreamAsked,
        UsageEvents(usage) \o <<"tool_thinking">>
            \o (IF tool_events THEN <<"tool_event">> ELSE <<>>))))

\* the reply has a function_call and no tool_calls: tc.function of the dict
\* raises AttributeError, caught by the outer except
StreamFunctionCall(usage) ==
    StreamStep(StreamCompletes(Emit(StreamAsked, UsageEvents(usage) \o <<ErrSystem>>)))

\* the reply has neither: the final_answer event, break
StreamFinalAnswer(usage) ==
    StreamStep(AfterLoop(Emit(StreamAsked, UsageEvents(usage) \o <<"final_answer">>)))

\* the session and thinking events are out, steps = 0
InitStream ==
    /\ root = <<>>
    /\ disk = <<>>
    /\ line_offset_cache = <<>>
    /\ rg_path = RgAbsent
    /\ request = [op |-> "stream_agent_response"]
    /\ response = [status |-> "open", steps |-> 0, last |-> "thinking", outcome |-> <<>>]

NextStream ==
    \/ StreamCreateFails
    \/ StreamCreditsExhausted
    \/ \E usage \in UsageReplies : StreamEmptyChoices(usage)
    \/ \E usage \in UsageReplies, tool_events \in BOOLEAN : StreamToolCalls(usage, tool_events)
    \/ \E usage \in UsageReplies : StreamFunctionCall(usage)
    \/ \E usage \in UsageReplies : StreamFinalAnswer(usage)

SpecStream == InitStream /\ [][NextStream]_vars

-----------------------------------------------------------------------------
(* Specification of the listing: a corpus of every choice among six files,  *)
(* listed from the root, a subdirectory, a file, or a path out of the root  *)

SegAlt    == <<97, 108, 116>>                                  \* "alt"
SegOldTXT == <<111, 108, 100, 46, 84, 88, 84>>                 \* "old.TXT"

\* notes.txt, x.json, gesetze/bgb.md, gesetze/x.json, gesetze/alt/old.TXT,
\* urteile/2021.md
ListCandidates ==
    { <<SegNotes>>, <<SegXjson>>, <<SegGesetze, SegBgbMd>>, <<SegGesetze, SegXjson>>,
      <<SegGesetze, SegAlt, SegOldTXT>>, <<SegUrteile, Seg2021>> }

ListDisk(present) ==
    [ p \in { SearchRoot \o c : c \in present } |-> [kind |-> "file", bytes |-> <<97, 10>>] ]

\* ".", "gesetze", "gesetze/alt", "urteile", "gesetze/../urteile",
\* "gesetze/bgb.md", "../etc"
ListSubdirs ==
    { [abs |-> FALSE, segs |-> segs] :
        segs \in { <<DOT>>, <<SegGesetze>>, <<SegGesetze, SegAlt>>, <<SegUrteile>>,
                   <<SegGesetze, DOTDOT, SegUrteile>>, <<SegGesetze, SegBgbMd>>,
                   <<DOTDOT, SegEtc>> } }

InitList ==
    /\ root = SearchRoot
    /\ disk \in { ListDisk(present) : present \in SUBSET ListCandidates }
    /\ line_offset_cache = <<>>
    /\ rg_path = RgAbsent
    /\ request = NoRequest
    /\ response = NoResponse

NextList ==
    /\ request = NoRequest
    /\ \E subdir \in ListSubdirs : CallListPaths(subdir)

SpecList == InitList /\ [][NextList]_vars

-----------------------------------------------------------------------------
(* Properties of the sandbox (SpecPaths) *)

\* the relative path of the request contains "../../<name>"
IsTraversal(rel) ==
    /\ ~rel.abs
    /\ \E i \in 1..(Len(rel.segs) - 2) :
          /\ rel.segs[i] = DOTDOT
          /\ rel.segs[i + 1] = DOTDOT
          /\ rel.segs[i + 2] \notin {DOTDOT, DOT}

IsBreakout(resp) == resp.status = "raise" /\ resp.error = "PermissionError"

\* C1: whatever resolve_inside returns is the root or lies below it
\* (segment-wise), and list_paths / read_file_range list or read only paths
\* inside the root.
C1_TrueContainment ==
    /\ (request.op = "resolve_inside" /\ response.status = "ok")
          => IsRelativeTo(response.value, root)
    /\ request.op \in {"list_paths", "read_file_range"}
          => \A p \in response.touched : IsRelativeTo(p, root)

\* C2: a relative path with "../../etc/passwd"-style traversal that leads out
\* of the root fails with the breakout error, and a path fully inside the
\* root succeeds with a result whose string is prefixed by the root's string
\* (under the roots "/" and "/etc" the path "../../etc/passwd" itself is
\* inside the root, where the second half of the claim applies).
C2_TraversalOutsideFails ==
    request.op = "resolve_inside" =>
        LET target == Resolve(disk, JoinPath(root, request.relative_path)) IN
        /\ (IsTraversal(request.relative_path) /\ ~IsRelativeTo(target, root))
              => IsBreakout(response)
        /\ IsRelativeTo(target, root) =>
              /\ response.status = "ok"
              /\ StartsWith(StrOf(response.value), StrOf(root))

-----------------------------------------------------------------------------
(* Properties of the range reader (SpecRead) *)

\* the file a read_file_range request names
RequestedFile == Resolve(disk, JoinPath(root, request.path))

\* C3: no operation returns the name or the content of a file whose extension
\* is not .txt or .md.
C3_OnlyAllowedExtensions ==
    /\ (request.op = "read_file_range" /\ response.status = "ok")
          => \/ HasAllowedExtension(RequestedFile)
             \/ response.value.text = <<>>
    /\ (request.op = "list_paths" /\ response.status = "ok")
          => \A f \in response.value.files :
                \E p \in DOMAIN disk :
                    /\ HasAllowedExtension(p)
                    /\ f = AsPosix(RelativeTo(p, root).rel)

\* C7: a line-number-addressed read_file_range request of the agent, for a
\* file of the corpus, is answered with a result and not with an error.
C7_LineAddressedRead ==
    (/\ request.op = "dispatch_read_file_range"
     /\ request.mode = "line"
     /\ IsFile(disk, RequestedFile))
        => response.status = "ok"

\* C9: for a file inside the root and any start, end, context and max_lines,
\* read_file_range does not raise and returns 0 <= start <= end <= file length.
C9_BoundsClamped ==
    (request.op = "read_file_range" /\ IsFile(disk, RequestedFile)) =>
        /\ response.status = "ok"
        /\ 0 <= response.value.start
        /\ response.value.start <= response.value.end
        /\ response.value.end <= Len(FileBytes(disk, RequestedFile))

\* C10: the text of every read_file_range result is the replacement-decoding
\* of the file's bytes from the returned start to the returned end.
C10_TextIsSlice ==
    (request.op = "read_file_range" /\ response.status = "ok") =>
        LET b == FileBytes(disk, RequestedFile)
            r == response.value
        IN r.text = Decode(SubSeq(b, r.start + 1, Min(r.end, Len(b))))

-----------------------------------------------------------------------------
(* Properties of the query compiler (SpecParse) *)

\* the set of terms of a conjunction
TermSet(conj) == { conj[i] : i \in 1..Len(conj) }

\* the DNF of "(BGB OR Bürgerliches Gesetzbuch) AND Kündigung", adjacent terms
\* being one conjunction
ExampleDnf ==
    << <<TermBGB, TermKuendigung>>,
       <<TermBuergerliches, TermGesetzbuch, TermKuendigung>> >>

\* C4: the example query compiles to used_boolean = True and exactly the two
\* conjunctions ["BGB","Kündigung"] and ["Bürgerliches","Gesetzbuch","Kündigung"].
C4_ExampleQueryDnf ==
    (request.op = "parse_to_dnf" /\ request.query = ExampleQuery) =>
        /\ response.value.used_boolean
        /\ response.value.dnf = ExampleDnf

\* C5: for a query of the grammar and every set S of terms, some conjunction
\* of the returned DNF is a subset of S exactly when the expression is true
\* on S.
C5_DnfEquivalent ==
    (request.op = "parse_to_dnf" /\ request.expr # <<>>) =>
        \A S \in SUBSET Vocabulary :
            (\E i \in 1..Len(response.value.dnf) :
                 TermSet(response.value.dnf[i]) \subseteq S)
            <=> EvalExpr(request.expr, S)

\* "(a OR b) AND c" was compiled, to the two conjunctions [a, c] and [b, c]
C5_Witness ==
    /\ request.op = "parse_to_dnf"
    /\ request.expr = << << ParenFactor(<< <<TermFactor(<<97>>)>>,
                                           <<TermFactor(<<98>>)>> >>),
                            TermFactor(<<99>>) >> >>
    /\ response.value.dnf = << <<<<97>>, <<99>>>>, <<<<98>>, <<99>>>> >>

-----------------------------------------------------------------------------
(* Properties of the query compiler call by call (SpecDescent) *)

\* C22: for every query string (terms, AND/OR keywords and parentheses in any
\* sequence, with leading, trailing or doubled operators, unbalanced
\* parentheses, or empty) the compiler terminates and returns a
\* (used_boolean, dnf) pair without raising; every parse_factor call either
\* consumes at least one token or is at the end of the input, and an orphan
\* operator is consumed as an empty factor.
C22_CompilerReturns ==
    /\ <>(/\ response.status = "ok"
          /\ DOMAIN response.value = {"used_boolean", "dnf"})
    /\ [][(/\ RunParseFactor
           /\ response.m.stack[Len(response.m.stack)].pc = "enter")
             => LET m == response.m IN
                \/ response'.m.pos > m.pos
                \/ AtEnd(m.tokens, m.pos)
                \/ (/\ Upper(Peek(m.tokens, m.pos)) \in {OpAND, OpOR, RPAREN}
                    /\ response'.m.pos = m.pos + 1
                    /\ response'.m.ret = <<<<>>>>)]_vars

\* no term occurs twice in conjunction c
HasNoRepeat(c) == \A i, j \in DOMAIN c : c[i] = c[j] => i = j

\* conjunction c is a followed by the terms of b that a does not hold, in
\* the order of b
IsFirstSeenMerge(c, a, b) ==
    LET NotInA(t) == \A i \in DOMAIN a : a[i] # t IN
    /\ Len(c) >= Len(a)
    /\ SubSeq(c, 1, Len(a)) = a
    /\ SubSeq(c, Len(a) + 1, Len(c)) = SelectSeq(b, NotInA)

\* the conjunctions parse_term holds after the step to the state with
\* compiler state m2: its local factors when it went on to a call, the value
\* it returned otherwise
FactorsAfter(m, m2) ==
    IF Len(m2.stack) > Len(m.stack) THEN m2.stack[Len(m.stack)].acc ELSE m2.ret

\* C25: in every DNF the compiler returns no conjunction is empty and none
\* holds the same term twice; and the conjunctions AND builds from the
\* conjunctions a of its left operand and b of its right operand are, for
\* every pair (a, b), the terms of a followed by the new terms of b.
C25_ConjunctionsWellFormed ==
    /\ [](response.status = "ok" =>
            \A k \in DOMAIN response.value.dnf :
                /\ response.value.dnf[k] # <<>>
                /\ HasNoRepeat(response.value.dnf[k]))
    /\ [][(/\ RunParseTerm
           /\ response.m.stack[Len(response.m.stack)].pc = "rhs"
           /\ response'.m.error = None)
             => LET m    == response.m
                    left == m.stack[Len(m.stack)].acc
                    out  == FactorsAfter(m, response'.m)
                IN /\ Len(out) = Len(left) * Len(m.ret)
                   /\ \A i \in DOMAIN left, j \in DOMAIN m.ret :
                         /\ IsFirstSeenMerge(out[(i - 1) * Len(m.ret) + j],
                                             left[i], m.ret[j])
                         /\ HasNoRepeat(out[(i - 1) * Len(m.ret) + j])]_vars

\* "a AND a" was compiled to the one conjunction [a]
C25_Witness ==
    /\ request.op = "parse_to_dnf"
    /\ request.query = <<97>> \o SPACE \o OpAND \o SPACE \o <<97>>
    /\ response.status = "ok"
    /\ response.value.dnf = << <<<<97>>>> >>

-----------------------------------------------------------------------------
(* Properties of the whole-file search (SpecFileSearch) *)

\* the query of the request, its DNF, and whether it uses explicit operators
SearchQuery == IF request.query = None THEN <<>> ELSE ValueOf(request.query)
SearchParsed == parse_boolean_query_to_dnf(SearchQuery)

\* the relative names of the allowed-extension files under the root that
\* match the glob of the request
GlobCandidates ==
    LET g == IF request.glob = None THEN ConfigGlob ELSE ValueOf(request.glob)
        pats == GlobPatterns(g)
    IN { p \in DOMAIN disk :
           /\ IsRelativeTo(p, root)
           /\ IsFile(disk, p)
           /\ HasAllowedExtension(p)
           /\ \E k \in 1..Len(pats) :
                 fnmatchcase(AsPosix(RelativeTo(p, root).rel), pats[k]) }

\* the content of file p holds every term of conjunction conj (both
\* case-folded unless the request is case sensitive)
HoldsAllTerms(p, conj) ==
    LET text == Decode(FileBytes(disk, p))
        fold(x) == IF request.case_sensitive THEN x ELSE Lower(x)
    IN \A t \in TermSet(conj) : Contains(fold(text), fold(t))

\* the files a list of conjunctions selects
SelectedBy(conjs) ==
    { AsPosix(RelativeTo(p, root).rel) :
        p \in { c \in GlobCandidates :
                  \E i \in 1..Len(conjs) : HoldsAllTerms(c, conjs[i]) } }

ReturnedFiles == { response.value.files[i] : i \in 1..Len(response.value.files) }

FileCap == OrDefault(request.max_results, ConfigMaxResults)

\* the result is the selected files, all of them unless the cap was reached
ReturnsExactly(selected) ==
    /\ ReturnedFiles \subseteq selected
    /\ Len(response.value.files) = Cardinality(ReturnedFiles)
    /\ Len(response.value.files) <= FileCap
    /\ ReturnedFiles = selected \/ Len(response.value.files) = FileCap

\* the DNF of the query of the request
QueryDnf == IF SearchQuery = ExampleQuery THEN ExampleDnf ELSE SearchParsed.dnf

\* C6: for a query with explicit AND/OR operators the result is, up to the
\* cap, exactly the files that are allowed, match the glob and hold all terms
\* of at least one conjunction of the query's DNF.
C6_FilesOfSomeConjunction ==
    (request.op = "file_search" /\ SearchParsed.used_boolean) =>
        ReturnsExactly(SelectedBy(QueryDnf))

\* C13: for every non-negative max_results given by the caller, and
\* config.max_results when it is omitted, file_search returns no more than
\* max_results files.
C13_AtMostMaxResultsFiles ==
    (request.op = "file_search" /\ response.status = "ok") =>
        Len(response.value.files)
            <= (IF request.max_results = None THEN ConfigMaxResults
                ELSE ValueOf(request.max_results))

\* C28: with no query and the default glob, file_search considers every
\* allowed-extension file under the root, at any depth and directly in the
\* root: when the corpus holds no more files than max_results, file_search()
\* returns the same set of paths as list_paths(".").
C28_FileSearchListsCorpus ==
    LET listing == list_paths([abs |-> FALSE, segs |-> <<DOT>>]) IN
    (/\ request.op = "file_search"
     /\ request.query = None
     /\ request.glob = None
     /\ listing.status = "ok"
     /\ Cardinality(listing.value.files) <= FileCap) =>
        /\ response.status = "ok"
        /\ ReturnedFiles = listing.value.files

-----------------------------------------------------------------------------
(* Properties of the line search (SpecSearch) *)

\* the file of the corpus a hit names
HitPath(hit) ==
    CHOOSE p \in DOMAIN disk :
        IsRelativeTo(p, root) /\ AsPosix(RelativeTo(p, root).rel) = hit.file

\* the line of a hit, as the matcher numbers lines, and its byte offset
HitLine(hit) == RgLines(FileBytes(disk, HitPath(hit)))[hit.line]

HitLineOffset(hit) ==
    Len(Concat(SubSeq(RgLines(FileBytes(disk, HitPath(hit))), 1, hit.line - 1)))

SearchHits ==
    IF request.op = "search_rg" /\ response.status = "ok"
    THEN { response.value.matches[i] : i \in DOMAIN response.value.matches }
    ELSE {}

\* C8: for every hit of search_rg, byte_range = [s, e) is the absolute byte
\* range of the first submatch of the query on the matched line, so that the
\* bytes s..e of the file are the matched substring (for the line
\* "§ 573 Kündigung durch den Vermieter" and the query "Kündigung", the
\* bytes of "Kündigung").
C8_ByteRangeIsFirstSubmatch ==
    \A hit \in SearchHits :
        LET alts   == SearchAlternatives(request.query)
            line   == HitLine(hit)
            first  == FirstSubmatch(line, alts, request.case_sensitive)
            s      == hit.byte_range[1]
            e      == hit.byte_range[2]
            bytes  == FileBytes(disk, HitPath(hit))
        IN /\ SubmatchStarts(line, alts, request.case_sensitive) # {}
           /\ s = HitLineOffset(hit) + first.start
           /\ e = HitLineOffset(hit) + first.end
           /\ (request.query = TermKuendigung /\ line = Encode(LineParagraph573) \o <<10>>)
                 => Slice(bytes, s, e) = Encode(TermKuendigung)

\* the texts of the lines of a file, line by line, as the matcher's events
\* give them and as the cached file read gives them
MatcherTexts(bytes) ==
    [ j \in DOMAIN RgLines(bytes) |-> RStripNewline(Decode(RgLines(bytes)[j])) ]

CachedTexts(p) ==
    [ j \in DOMAIN ReadLines(disk, p) |-> RStripNewline(ReadLines(disk, p)[j]) ]

\* the effective context_lines of the request
SearchContext ==
    IF request.context_lines = None THEN SearchContextLines
    ELSE ValueOf(request.context_lines)

\* the context of a hit is the rows of the lines max(1, ln-c) .. min(N, ln+c)
\* of the file whose lines have the given texts
IsWindowOf(hit, texts) ==
    LET lo == Max(1, hit.line - SearchContext)
        hi == Min(Len(texts), hit.line + SearchContext)
    IN hit.context = [ k \in 1..(hi - lo + 1) |->
                         [line |-> lo + k - 1, text |-> texts[lo + k - 1]] ]

\* C11: the context of a hit at line ln of a file with N lines is the rows,
\* in ascending order, of exactly the lines max(1, ln-c) .. min(N, ln+c), each
\* with its number and its text, the lines and their texts being those of the
\* matcher or those of the cached file read (which the claim takes to agree).
C11_ContextIsWindow ==
    \A hit \in SearchHits :
        \/ IsWindowOf(hit, MatcherTexts(FileBytes(disk, HitPath(hit))))
        \/ IsWindowOf(hit, CachedTexts(HitPath(hit)))

\* the effective max_results of the request
SearchCap ==
    IF request.max_results = None THEN SearchMaxResults
    ELSE ValueOf(request.max_results)

\* C12: for every max_results >= 0 (20 when omitted), search_rg returns at
\* most max_results hits.
C12_AtMostMaxResults ==
    (request.op = "search_rg" /\ response.status = "ok" /\ SearchCap >= 0) =>
        Len(response.value.matches) <= SearchCap

\* with max_results = 1 the matcher reported two files or more, each with a
\* matching line, and one hit was returned
C12_Witness ==
    /\ request.op = "search_rg"
    /\ response.status = "ok"
    /\ request.max_results = Some(1)
    /\ Len(request.order) >= 2
    /\ Len(response.value.matches) = 1

\* the year of a hit's file: the four digits its name ends with, before the
\* extension; a name without them counts as a very large year
YearOfName(file) ==
    LET name == SubSeq(file, LastIndex(file, 47) + 1, Len(file))
        dot  == LastIndex(name, 46)
        stem == IF dot = 0 THEN name ELSE SubSeq(name, 1, dot - 1)
        n    == Len(stem)
    IN IF n >= 4 /\ \A i \in (n - 3)..n : stem[i] \in 48..57
       THEN (stem[n - 3] - 48) * 1000 + (stem[n - 2] - 48) * 100
            + (stem[n - 1] - 48) * 10 + (stem[n] - 48)
       ELSE NoYear

\* hit h1 was collected before hit h2: an earlier line of the same file, or
\* a file the matcher reported earlier
CollectedBefore(h1, h2) ==
    LET at(h) == CHOOSE k \in DOMAIN request.order : request.order[k] = HitPath(h)
    IN IF h1.file = h2.file THEN h1.line < h2.line ELSE at(h1) < at(h2)

\* C14: the hits are ordered by year descending, the year of a hit being the
\* trailing 4-digit year of its file's name and a very large year for a file
\* without one; hits of the same year keep their collection order.
C14_YearDescending ==
    (request.op = "search_rg" /\ response.status = "ok") =>
        \A i, j \in DOMAIN response.value.matches :
            i < j =>
                LET h1 == response.value.matches[i]
                    h2 == response.value.matches[j]
                IN \/ YearOfName(h1.file) > YearOfName(h2.file)
                   \/ /\ YearOfName(h1.file) = YearOfName(h2.file)
                      /\ CollectedBefore(h1, h2)

\* C15: without the matcher search_rg returns {error, matches: []}, raising
\* nothing and reading no corpus file, whatever the query and the file_list;
\* every search_rg response with an error field has no matches; and
\* file_search and read_file_range answer a call the same with and without
\* the matcher.
C15_MatcherAbsent ==
    /\ [](request.op = "search_rg" =>
            /\ rg_path = RgAbsent =>
                  /\ response.status = "ok"
                  /\ "error" \in DOMAIN response.value
                  /\ response.value.matches = <<>>
                  /\ response.touched = {}
                  /\ line_offset_cache = <<>>
            /\ (response.status = "ok" /\ "error" \in DOMAIN response.value)
                  => response.value.matches = <<>>)
    /\ [][(request' = request /\ request.op \in {"file_search", "read_file_range"})
             => response' = response]_vars

\* search_rg was called for ["gesetze"] without the matcher and returned an
\* error and no matches
C15_Witness ==
    /\ rg_path = RgAbsent
    /\ request.op = "search_rg"
    /\ request.file_list = << [abs |-> FALSE, segs |-> <<SegGesetze>>] >>
    /\ response.status = "ok"
    /\ "error" \in DOMAIN response.value
    /\ response.value.matches = <<>>

\* the allowed-extension files an entry of file_list denotes: none when the
\* entry leads out of the root; the file itself, the files below a
\* directory, the whole corpus for ".", the files a glob pattern matches
DenotedBy(rel) ==
    LET target  == Resolve(disk, JoinPath(root, rel))
        pattern == IF rel.abs THEN RelativeTo(rel.segs, root).rel ELSE rel.segs
        allowed(files) == { p \in files : IsFile(disk, p) /\ HasAllowedExtension(p) }
    IN IF ~IsRelativeTo(target, root) THEN {}
       ELSE IF IsFile(disk, target) THEN allowed({target})
       ELSE IF IsDir(disk, target) THEN allowed(RGlob(disk, target))
       ELSE IF HasWildcard(rel) THEN allowed(GlobFrom(disk, root, pattern))
       ELSE {}

DenotedFiles(file_list) ==
    IF file_list = <<>> THEN AllowedFilesBelow(root)
    ELSE UNION { DenotedBy(file_list[i]) : i \in DOMAIN file_list }

\* C16: search_rg does not raise over an entry of file_list, and the files it
\* hands to the matcher are exactly the allowed-extension files that the
\* entries inside the root denote: the whole corpus for an empty or absent
\* file_list only, no file (and no match) when every entry is rejected.
C16_FilesOfFileList ==
    (/\ request.op = "search_rg"
     /\ rg_path # RgAbsent
     /\ SearchCap >= 0) =>
        /\ response.status = "ok"
        /\ response.touched = DenotedFiles(request.file_list)
        /\ DenotedFiles(request.file_list) = {} => response.value.matches = <<>>

\* a Markdown header: at most 3 leading spaces, 1 to 6 "#", whitespace, and
\* then a character that is not whitespace
IsMarkdownHeader(line) ==
    \E k \in 0..3, h \in 1..6 :
        /\ Len(line) > k + h + 1
        /\ \A i \in 1..k : line[i] = 32
        /\ \A i \in (k + 1)..(k + h) : line[i] = 35
        /\ IsSpace(line[k + h + 1])
        /\ \E j \in (k + h + 2)..Len(line) : ~IsSpace(line[j])

\* C20: the section of a hit at line ln is the stripped text of the closest
\* line before ln that is a Markdown header, and null when there is none (so
\* for a hit on line 1); a matched header line is not its own section.
C20_SectionIsNearestHeader ==
    \A hit \in SearchHits :
        LET lines   == MatcherTexts(FileBytes(disk, HitPath(hit)))
            headers == { j \in 1..(hit.line - 1) : IsMarkdownHeader(lines[j]) }
            nearest == CHOOSE j \in headers : \A k \in headers : k <= j
        IN hit.section = IF headers = {} THEN None ELSE Some(Strip(lines[nearest]))

\* a text with every occurrence of one of the terms wrapped in "**": the
\* occurrences are taken leftmost first and do not overlap
RECURSIVE Emphasised(_, _, _)
Emphasised(text, terms, case_sensitive) ==
    LET same(a, b) == IF case_sensitive THEN a = b ELSE Lower(a) = Lower(b)
        here == { t \in DOMAIN terms :
                    /\ terms[t] # <<>>
                    /\ Len(terms[t]) <= Len(text)
                    /\ same(SubSeq(text, 1, Len(terms[t])), terms[t]) }
        t == CHOOSE x \in here : \A y \in here : x <= y
    IN IF text = <<>> THEN <<>>
       ELSE IF here = {} THEN <<Head(text)>> \o Emphasised(Tail(text), terms, case_sensitive)
       ELSE <<42, 42>> \o SubSeq(text, 1, Len(terms[t])) \o <<42, 42>>
            \o Emphasised(SubSeq(text, Len(terms[t]) + 1, Len(text)), terms, case_sensitive)

\* C21: the text of every hit is the matched line with each occurrence of
\* the term(s) that made the line match wrapped in "**" (case-insensitively
\* unless case_sensitive), for a plain query and for a query written with
\* " OR ", where the occurrences of each alternative are wrapped.
C21_TextEmphasisesTerms ==
    \A hit \in SearchHits :
        hit.text = Emphasised(MatcherTexts(FileBytes(disk, HitPath(hit)))[hit.line],
                              SearchAlternatives(request.query),
                              request.case_sensitive)

\* C24: for every hit on line ln, byte_range[0] is the absolute byte offset
\* of the first byte of line ln as the matcher numbers lines, byte_range[1]
\* is byte_range[0] plus the UTF-8 length of the line's text, and the bytes
\* of the file in [byte_range[0], byte_range[1]) are the matched line without
\* its newline, whichever of "\n", "\r\n" and "\r" the file holds.
C24_ByteRangeIsMatchedLine ==
    \A hit \in SearchHits :
        LET bytes == FileBytes(disk, HitPath(hit))
            text  == MatcherTexts(bytes)[hit.line]
        IN /\ hit.byte_range[1] = HitLineOffset(hit)
           /\ hit.byte_range[2] = hit.byte_range[1] + Len(Encode(text))
           /\ Slice(bytes, hit.byte_range[1], hit.byte_range[2]) = Encode(text)

-----------------------------------------------------------------------------
(* Properties of repeated calls (SpecRepeat) *)

\* C23: against an unchanged corpus a call of search_rg, file_search,
\* read_file_range or line_start_offset returns what the identical call
\* returns when it is made again, in every state that other calls may have
\* left behind, identically ordered; the line-offset cache changes no result
\* (the offset found with the cache as it is equals the one found with an
\* empty cache).
C23_SameCallSameResult ==
    /\ request.op = "search_rg" =>
          \A order \in Orderings(ReportedFiles(request.query, request.file_list,
                                               request.max_results, request.context_lines,
                                               request.case_sensitive)) :
              search_rg(request.query, request.file_list, request.max_results,
                        request.context_lines, request.case_sensitive,
                        order).response = response
    /\ request.op = "file_search" =>
          file_search(request.query, request.glob, request.case_sensitive,
                      request.max_results) = response
    /\ request.op = "read_file_range" =>
          read_file_range(request.path, request.start, request.end,
                          request.context, request.max_lines) = response
    /\ request.op = "line_start_offset" =>
          \A cache \in {<<>>, line_offset_cache} :
              line_start_offset(cache, disk, request.path,
                                request.line_number).offset = response.value

-----------------------------------------------------------------------------
(* Properties of the line-offset cache (SpecCache) *)

\* the offset list of the file at path as it is on disk now: a leading 0,
\* then the start of every line
OffsetsOnDisk(path) ==
    LET lines == SplitLines(FileBytes(disk, path), BytesLineBreaks) IN
    <<0>> \o [ k \in 1..Len(lines) |-> Len(Concat(SubSeq(lines, 1, k - 1))) ]

\* C26: the cache is filled lazily and never invalidated.  It starts empty;
\* a step adds the entry of a path only when line_start_offset runs for that
\* path (called directly, or by search_rg for a file with a hit), and the
\* entry added is the offset list of the file as it then is; no step (search,
\* read, line_start_offset, a change of the file on disk) alters or removes
\* an entry, so that building one path's entry leaves all others as they were.
C26_CacheFilledOnceAndKept ==
    /\ [][/\ \A p \in DOMAIN line_offset_cache :
                /\ p \in DOMAIN line_offset_cache'
                /\ line_offset_cache'[p] = line_offset_cache[p]
          /\ \A p \in (DOMAIN line_offset_cache') \ (DOMAIN line_offset_cache) :
                /\ line_offset_cache'[p] = OffsetsOnDisk(p)
                /\ \/ request'.op = "line_start_offset" /\ request'.path = p
                   \/ /\ request'.op = "search_rg"
                      /\ \E i \in DOMAIN response'.value.matches :
                            response'.value.matches[i].file = AsPosix(RelativeTo(p, root).rel)]_vars
    /\ [](request = NoRequest => line_offset_cache = <<>>)

\* line_start_offset answered from an entry that the file on disk no longer
\* agrees with
C26_Witness ==
    /\ request.op = "line_start_offset"
    /\ request.path \in DOMAIN line_offset_cache
    /\ line_offset_cache[request.path] # OffsetsOnDisk(request.path)
    /\ \E n \in DOMAIN line_offset_cache[request.path] :
          response.value = line_offset_cache[request.path][n]

-----------------------------------------------------------------------------
(* Properties of concurrent line_start_offset calls (SpecThreads) *)

\* C27: without locking, for a file that does not change, in every
\* interleaving of concurrent line_start_offset calls on the same or on
\* different paths every cache entry is, from the moment it exists, the
\* offset list a single sequential build produces (no partially built
\* list is ever in the cache or read from it), every finished call has
\* returned the offset it returns when run alone, and when all calls are
\* finished every requested path has its entry.
C27_InterleavedBuildsAgree ==
    /\ \A p \in DOMAIN line_offset_cache :
          line_offset_cache[p] = build_line_offset_cache(<<>>, disk, p)[p]
    /\ \A t \in Threads :
          /\ response[t].pc = "clamp" =>
                response[t].offsets
                   = build_line_offset_cache(<<>>, disk, request[t].path)[request[t].path]
          /\ response[t].pc = "done" =>
                response[t].result
                   = Some(line_start_offset(<<>>, disk, request[t].path,
                                            request[t].line_number).offset)
    /\ (\A t \in Threads : response[t].pc = "done") =>
          \A t \in Threads : request[t].path \in DOMAIN line_offset_cache

\* two threads built the entry of the same path at the same time (the second
\* checked the cache before the first stored), and both have returned
C27_Witness ==
    /\ \A t \in Threads : response[t].pc = "done" /\ response[t].byte_index > 0
    /\ \A t, u \in Threads : request[t].path = request[u].path

-----------------------------------------------------------------------------
(* Properties of the agent loop (SpecAgent) *)

\* C29: run_agent always terminates by returning a string, whatever the
\* model replies at each step (tool_calls, a legacy function_call, empty
\* choices, plain content, an API error); it issues at most max_steps = 100
\* requests with tools and then at most one fallback request; and between
\* two requests every tool call of the assistant message has received
\* exactly one tool message with its tool_call_id, in order.
C29_AgentReturnsString ==
    /\ <>(response.status = "ok")
    /\ [](/\ response.status # "raise"
          /\ response.requests <= AgentMaxSteps
          /\ response.fallbacks <= 1
          /\ response.fallbacks = 1 => response.requests = AgentMaxSteps
          /\ response.tool_messages = response.tool_calls)

-----------------------------------------------------------------------------
(* Properties of the line index (SpecLines) *)

\* the lines of a file, each with its terminator, and the number of bytes
\* before line k
FileLines(p) == SplitLines(FileBytes(disk, p), BytesLineBreaks)

BytesBeforeLine(p, k) == Len(Concat(SubSeq(FileLines(p), 1, k - 1)))

\* C17: for a line n in 1..num_lines, offset = line_start_offset(path, n) and
\* then read_file_range(path, offset, offset, context=0) return a start that
\* is the offset of the first byte of line n and a text that begins at the
\* start of line n.
C17_ReadFromLineStart ==
    (/\ request.op = "line_start_then_read"
     /\ request.line_number \in 1..Len(FileLines(RequestedFile))) =>
        LET at    == BytesBeforeLine(RequestedFile, request.line_number)
            bytes == FileBytes(disk, RequestedFile)
        IN /\ response.status = "ok"
           /\ request.offset = at
           /\ response.value.start = at
           /\ StartsWith(Decode(Slice(bytes, at, Len(bytes))), response.value.text)

\* line 2 of "a\r\na" was read from: it starts at byte 3
C17_Witness ==
    /\ request.op = "line_start_then_read"
    /\ FileBytes(disk, RequestedFile) = <<97, 13, 10, 97>>
    /\ request.line_number = 2
    /\ response.status = "ok"
    /\ response.value.start = 3

\* C18: line_start_offset returns the sum of the byte lengths, terminators
\* included, of the lines 1..k-1, k being line_number clamped to
\* [1, num_lines]; 0 for a file without lines; it never fails.
C18_OffsetOfClampedLine ==
    request.op = "line_start_offset" =>
        LET n == Len(FileLines(request.path))
            k == Max(1, Min(request.line_number, n))
        IN /\ response.status = "ok"
           /\ response.value = IF n = 0 THEN 0 ELSE BytesBeforeLine(request.path, k)

\* line 6 of the two-line file "a\na\n" was asked for: the offset is that of
\* line 2
C18_Witness ==
    /\ request.op = "line_start_offset"
    /\ FileBytes(disk, request.path) = <<97, 10, 97, 10>>
    /\ request.line_number = 6
    /\ response.status = "ok"
    /\ response.value = 2

-----------------------------------------------------------------------------
(* Properties of the listing (SpecList) *)

\* the directory a list_paths request names
ListedDir == Resolve(disk, JoinPath(root, request.subdir))

\* the regular files below dir whose extension is .txt or .md, whatever the
\* case of its letters
TextFilesBelow(dir) ==
    { p \in DOMAIN disk :
        /\ disk[p].kind = "file"
        /\ Len(p) > Len(dir)
        /\ SubSeq(p, 1, Len(dir)) = dir
        /\ Lower(Suffix(p)) \in { <<46, 116, 120, 116>>, <<46, 109, 100>> } }

\* C19: list_paths(subdir), for a subdir inside the root, returns exactly the
\* regular files below subdir, at any depth, whose extension is .txt or .md,
\* each as a POSIX path relative to the root: no file of another extension
\* and no file outside subdir.
C19_ListsAllowedFilesBelow ==
    (request.op = "list_paths" /\ IsRelativeTo(ListedDir, root)) =>
        /\ response.status = "ok"
        /\ response.value.files
              = { AsPosix(SubSeq(p, Len(root) + 1, Len(p))) :
                    p \in TextFilesBelow(ListedDir) }

\* "gesetze" was listed in the corpus of all six files: gesetze/bgb.md and
\* gesetze/alt/old.TXT, not gesetze/x.json, not notes.txt
C19_Witness ==
    /\ request.op = "list_paths"
    /\ request.subdir = [abs |-> FALSE, segs |-> <<SegGesetze>>]
    /\ disk = ListDisk(ListCandidates)
    /\ response.status = "ok"
    /\ response.value.files
          = { AsPosix(<<SegGesetze, SegBgbMd>>),
              AsPosix(<<SegGesetze, SegAlt, SegOldTXT>>) }

-----------------------------------------------------------------------------
(* Properties of the streamed agent loop (SpecStream) *)

\* C30: in every run of stream_agent_response a stream that has emitted a
\* final_answer event never also emits an error event (in particular not
\* 'Maximale Anzahl Schritte erreicht'), at every step count up to
\* max_steps = 50, and the last event of every finished stream is the
\* complete event.
C30_OutcomeEventsExclusive ==
    request.op = "stream_agent_response" =>
        /\ ~(\E i, j \in DOMAIN response.outcome :
                /\ response.outcome[i] = "final_answer"
                /\ response.outcome[j] \in ErrorEvents)
        /\ response.status = "closed" => response.last = "complete"

====
